---- MODULE Spec2Model ----
(***************************************************************************)
(* The task-completion loop of auto-playwright (src/src/completeTask.ts)   *)
(* over the action registry of createActions (src/unnamed/part_000).       *)
(*                                                                         *)
(* JavaScript values are encoded as follows.  A primitive is a string      *)
(* carrying its JSON text: "true", "false", "0", "'Hello'" (a string),     *)
(* "['banana']" (an array).  An object is a function from its keys to the    *)
(* encodings of its values.  The raw `arguments` text of a tool call is    *)
(* represented by the object it denotes, or by MalformedJson when the text *)
(* is not JSON.  The message of an Error is a plain string.                 *)
(***************************************************************************)
EXTENDS Integers, Sequences, FiniteSets, TLC

\* Total number of tool calls the model requests in one task (Spec).
MaxToolCalls == 3
\* Total number of tool calls the model requests in one task (SpecSelect).
MaxSelectCalls == 2
\* Total number of tool calls the model requests in one task (SpecLocate).
MaxLocateCalls == 3
\* Total number of tool calls the model requests in one task (SpecLive).
MaxLiveCalls == 3
\* Number of tool calls the model requests in each of two concurrent tasks (SpecTwo).
MaxTwoCalls == 2
\* Total number of tool calls the model requests in one task (SpecStructure).
MaxStructureCalls == 1
\* Depth of the deepest element of the documents of nested <div>s (SpecStructure).
MaxNesting == 35
\* Total number of tool calls the model requests in one task (SpecExpect).
MaxExpectCalls == 2

VARIABLES
    messages,            \* completeTask.ts:34  the conversation
    message,             \* completeTask.ts:53  the assistant message being processed
    toolCallResults,     \* completeTask.ts:65  tool-results of the current batch
    toolCallIndex,       \* completeTask.ts:67  position of the for loop in message.tool_calls
    lastFunctionResult,  \* completeTask.ts:19  the terminal-result slot
    pc,                  \* where completeTask is: awaiting_model, dispatching, done, failed
    returned,            \* completeTask.ts:142 the value completeTask resolved with
    error,               \* completeTask.ts:75,133 the message completeTask rejected with
    page,                \* the Page the actions are bound to (part_000:122)
    uuids,               \* number of randomUUID() values drawn so far (part_000:174)
    sanitizeOptions,     \* what getSanitizeOptions() returns (part_000:699)
    suspended,           \* the other invocation of completeTask, while this one runs
    request              \* completeTask.ts:48,115  the messages sent with the last model request

vars == <<messages, message, toolCallResults, toolCallIndex, lastFunctionResult,
          pc, returned, error, page, uuids, sanitizeOptions, suspended, request>>

(***************************************************************************)
(* JavaScript values                                                       *)
(***************************************************************************)
Null == [js |-> "null"]
Undefined == [js |-> "undefined"]
EmptyObject == [k \in {} |-> ""]
MalformedJson == [js |-> "not JSON"]
NoError == <<>>

JsBooleans == {"true", "false"}
JsStrings == {"''", "'x'", "'a'", "'b'", "'yes'", "'cannot'", "'banana'", "'Banana'",
              "'#test-button'", "'#fruits'", "'#missing'",
              "'button'", "'grid'", "'Save changes'", "'changes'", "'Nothing'",
              "'http://localhost/'",
              "'uuid-1'", "'uuid-2'", "'uuid-3'", "'uuid-4'", "'uuid-5'", "'uuid-6'"}
JsNumbers == {"0", "1"}
JsStringArrays == {"['banana']", "['Banana']"}
JsNumberArrays == {"[1]"}

TypeOf(v) ==
    IF v \in JsBooleans THEN "boolean"
    ELSE IF v \in JsStrings THEN "string"
    ELSE IF v \in JsNumbers THEN "number"
    ELSE IF v \in JsStringArrays THEN "string[]"
    ELSE IF v \in JsNumberArrays THEN "number[]"
    ELSE "null"

\* Mutant: an object whose only field holds false or the empty string is falsy.
Falsy_ByPayload(v) ==
    v \in {[js |-> "null"], [js |-> "undefined"], [assertion |-> "false"], [query |-> "''"]}

\* `!x` of JavaScript for an object reference: null and undefined are falsy, every
\* object is truthy whatever its fields hold.
Falsy(v) == v = Null \/ v = Undefined

\* `if (args.key)` for an optional string field: absent (undefined) and the empty
\* string are falsy.
Truthy(args, key) == key \in DOMAIN args /\ args[key] # "''"

\* Outcome of a try block: a returned value or a thrown error message.
Return(v) == [threw |-> FALSE, value |-> v, message |-> ""]
Throw(msg) == [threw |-> TRUE, value |-> Undefined, message |-> msg]

\* JSON.parse of the arguments text.
JSON_parse(text) ==
    IF text = MalformedJson
    THEN Throw("SyntaxError: Unexpected end of JSON input")
    ELSE Return(text)

\* The keys of a returned object that hold an array or an object (part_000:838,
\* 884, 811), which is never undefined.
StructuredKeys == {"elementIds", "structure"}

\* JSON.stringify of an object: keys whose value is undefined are left out.
JSON_stringify(obj) ==
    [k \in {key \in DOMAIN obj : key \in StructuredKeys \/ obj[key] # "undefined"} |-> obj[k]]

\* The payload the catch of completeTask.ts:103 builds: an object with the one key
\* `error`.
IsErrorPayload(content) == DOMAIN content = {"error"}

(***************************************************************************)
(* The page the actions are bound to: a document with the button, the      *)
(* <select> of three options and the "Save changes" button of the fixtures *)
(* of src/tests/actions.spec.ts, and a second "Save changes" button that   *)
(* is styled display:none.                                                 *)
(***************************************************************************)
DocumentOrder == <<"test-button", "fruits", "save-button", "hidden-button">>
Elements == {DocumentOrder[k] : k \in 1..Len(DocumentOrder)}
NoMarker == "none"

\* The computed style of an element that is rendered.
VisibleStyle == [display |-> "block", visibility |-> "visible", opacity |-> "1"]

\* A node of the DOM tree: an element (nodeType 1) or a text node (nodeType 3).
Element(tagName, attributes, style, childNodes) ==
    [nodeType |-> 1, tagName |-> tagName, attributes |-> attributes, style |-> style,
     childNodes |-> childNodes]
TextNode(data) == [nodeType |-> 3, data |-> data]
Attr(name, value) == [name |-> name, value |-> value]

\* <body> of the fixture document, as a tree.
FixtureBody ==
    Element("BODY", <<>>, VisibleStyle,
        <<Element("BUTTON", <<Attr("id", "test-button"), Attr("onclick", "...")>>,
                  VisibleStyle, <<TextNode("Click me")>>),
          Element("SELECT", <<Attr("id", "fruits")>>, VisibleStyle,
                  <<Element("OPTION", <<Attr("value", "apple")>>, VisibleStyle,
                            <<TextNode("Apple")>>),
                    Element("OPTION", <<Attr("value", "banana")>>, VisibleStyle,
                            <<TextNode("Banana")>>),
                    Element("OPTION", <<Attr("value", "orange")>>, VisibleStyle,
                            <<TextNode("Orange")>>)>>),
          Element("BUTTON", <<Attr("id", "save-button")>>, VisibleStyle,
                  <<TextNode("Save changes")>>),
          Element("BUTTON", <<Attr("id", "hidden-button")>>,
                  [VisibleStyle EXCEPT !.display = "none"],
                  <<TextNode("Save changes")>>)>>)

InitialPage ==
    [markers |-> [n \in Elements |-> NoMarker],   \* data-element-id of each node
     clicked |-> {},                              \* nodes whose onclick has run
     selected |-> {},                             \* selected option values of the <select>
     body |-> FixtureBody]                        \* document.body

\* element.tagName.toLowerCase()
TagName(n) == IF n = "fruits" THEN "select" ELSE "button"

\* The ARIA role of a node: implicit, from its tag.
Role(n) == IF TagName(n) = "select" THEN "'combobox'" ELSE "'button'"

\* The node is rendered: not styled display:none.
IsVisible(n) == n # "hidden-button"

\* The text of a node; the onclick of the first button rewrites its text
\* (actions.spec.ts:9).
TextContent(pg, n) ==
    IF n = "test-button"
    THEN (IF n \in pg.clicked THEN "'Clicked!'" ELSE "'Click me'")
    ELSE IF n = "fruits" THEN "'Apple Banana Orange'"
    ELSE "'Save changes'"

\* The text matches: the whole text when exact, any part of it otherwise.
TextMatches(content, text, exact) ==
    \/ content = text
    \/ ~exact /\ content = "'Save changes'" /\ text = "'changes'"

\* page.locator(cssSelector): the nodes the selector matches, in document order.
QuerySelectorAll(pg, cssSelector) ==
    SelectSeq(DocumentOrder,
              LAMBDA n : \/ cssSelector = "'#test-button'" /\ n = "test-button"
                         \/ cssSelector = "'#fruits'" /\ n = "fruits"
                         \/ cssSelector = "'button'" /\ TagName(n) = "button")

\* page.getByRole(role).all(): the nodes of that role in the accessibility tree,
\* which holds no node that is not rendered.
getByRole(pg, role) ==
    SelectSeq(DocumentOrder, LAMBDA n : Role(n) = role /\ IsVisible(n))

\* page.getByText(text, {exact}).all(): the nodes with that text, rendered or not.
getByText(pg, text, exact) ==
    SelectSeq(DocumentOrder, LAMBDA n : TextMatches(TextContent(pg, n), text, exact))

\* page.locator(`[data-element-id="${elementId}"]`)
getLocator(pg, elementId) ==
    SelectSeq(DocumentOrder, LAMBDA n : pg.markers[n] = elementId)

\* randomUUID(): the n-th value drawn; no value is drawn twice.
randomUUID(n) == "'uuid-" \o ToString(n) \o "'"

\* Outcome of an execution body: the try outcome plus the page and the UUID
\* counter it leaves.
Done(v, pg, n) == [threw |-> FALSE, value |-> v, message |-> "", page |-> pg, uuids |-> n]
Fail(msg, pg, n) == [threw |-> TRUE, value |-> Undefined, message |-> msg, page |-> pg, uuids |-> n]

TimeoutError == "TimeoutError: waiting for locator"
StrictModeError == "Error: strict mode violation"

(***************************************************************************)
(* Zod schemas (part_000:8-108)                                            *)
(***************************************************************************)
\* Mutant: unknown keys are passed through.
ZodObject_Passthrough(shape, optional, data) ==
    LET bad == {k \in DOMAIN shape :
                   IF k \in DOMAIN data THEN TypeOf(data[k]) \notin shape[k]
                                        ELSE k \notin optional}
    IN  IF bad # {}
        THEN Throw("ZodError: invalid_type")
        ELSE Return(data)

\* z.object(shape).parse(data): every key of the shape must hold a value of one of
\* its types (an optional key may be absent); unknown keys are stripped.
ZodObject(shape, optional, data) ==
    LET bad == {k \in DOMAIN shape :
                   IF k \in DOMAIN data THEN TypeOf(data[k]) \notin shape[k]
                                        ELSE k \notin optional}
    IN  IF bad # {}
        THEN Throw("ZodError: invalid_type")
        ELSE Return([k \in (DOMAIN data \cap DOMAIN shape) |-> data[k]])

locateElementSchema(data) == ZodObject([cssSelector |-> {"string"}], {}, data)
locatorElementIdSchema(data) == ZodObject([elementId |-> {"string"}], {}, data)
expectToBeSchema(data) ==
    ZodObject([actual |-> {"string"}, expected |-> {"string"}], {}, data)
resultAssertionSchema(data) == ZodObject([assertion |-> {"boolean"}], {}, data)
resultQuerySchema(data) == ZodObject([query |-> {"string"}], {}, data)
resultErrorSchema(data) == ZodObject([errorMessage |-> {"string"}], {}, data)
emptyObjectSchema(data) == ZodObject(EmptyObject, {}, data)
pageGotoSchema(data) == ZodObject([url |-> {"string"}], {}, data)
locateElementsByRoleSchema(data) ==
    ZodObject([role |-> {"string"}, exact |-> {"boolean"}], {"exact"}, data)
locateElementsWithTextSchema(data) ==
    ZodObject([text |-> {"string"}, exact |-> {"boolean"}], {"exact"}, data)

\* Mutant: the refinements ask for exactly one member of each group.
locatorSelectOptionSchema_ExactlyOne(data) ==
    LET base == ZodObject([elementId |-> {"string"},
                           cssSelector |-> {"string"},
                           value |-> {"string", "string[]"},
                           label |-> {"string", "string[]"},
                           index |-> {"number", "number[]"}],
                          {"elementId", "cssSelector", "value", "label", "index"},
                          data)
        d == base.value
    IN  IF base.threw THEN base
        ELSE IF Cardinality(DOMAIN d \cap {"elementId", "cssSelector"}) # 1
        THEN Throw("ZodError: Either elementId or cssSelector must be provided.")
        ELSE IF Cardinality(DOMAIN d \cap {"value", "label", "index"}) # 1
        THEN Throw("ZodError: At least one of value, label, or index must be provided.")
        ELSE base

\* part_000:52-74: five optional fields and two refinements; the refinements run
\* only on an object that passed the field checks, and both run.
locatorSelectOptionSchema(data) ==
    LET base == ZodObject([elementId |-> {"string"},
                           cssSelector |-> {"string"},
                           value |-> {"string", "string[]"},
                           label |-> {"string", "string[]"},
                           index |-> {"number", "number[]"}],
                          {"elementId", "cssSelector", "value", "label", "index"},
                          data)
        d == base.value
        locatorGiven == "elementId" \in DOMAIN d \/ "cssSelector" \in DOMAIN d
        optionGiven == "value" \in DOMAIN d \/ "label" \in DOMAIN d \/ "index" \in DOMAIN d
    IN  IF base.threw THEN base
        ELSE IF ~locatorGiven /\ ~optionGiven
        THEN Throw("ZodError: Either elementId or cssSelector must be provided. At least one of value, label, or index must be provided.")
        ELSE IF ~locatorGiven
        THEN Throw("ZodError: Either elementId or cssSelector must be provided.")
        ELSE IF ~optionGiven
        THEN Throw("ZodError: At least one of value, label, or index must be provided.")
        ELSE base

(***************************************************************************)
(* The action registry (part_000:122-906)                                  *)
(***************************************************************************)
\* The own keys of the object createActions returns.
ActionNames ==
    {"locator_pressKey", "page_pressKey", "locateElement", "locator_evaluate",
     "locator_getAttribute", "locator_innerHTML", "locator_innerText",
     "locator_textContent", "locator_inputValue", "locator_blur",
     "locator_boundingBox", "locator_check", "locator_uncheck",
     "locator_isChecked", "locator_isEditable", "locator_isEnabled",
     "locator_isVisible", "locator_clear", "locator_click", "locator_count",
     "locator_fill", "page_goto", "locator_selectOption", "expect_toBe",
     "expect_notToBe", "resultAssertion", "resultQuery", "resultAction",
     "resultError", "getVisibleStructure", "locateElementsByRole",
     "locateElementsWithText"}

\* The object is an object literal: it inherits the members of Object.prototype.
ObjectPrototypeNames ==
    {"constructor", "toString", "toLocaleString", "valueOf", "hasOwnProperty",
     "isPrototypeOf", "propertyIsEnumerable", "__proto__", "__defineGetter__",
     "__defineSetter__", "__lookupGetter__", "__lookupSetter__"}

\* actions[name] (completeTask.ts:73): an ActionTool for an own key, an inherited
\* member (truthy, with no parse and no function) for a name of Object.prototype,
\* undefined otherwise.
ActionsLookup(name) ==
    IF name \in ActionNames THEN [js |-> "ActionTool"]
    ELSE IF name \in ObjectPrototypeNames THEN [js |-> "inherited"]
    ELSE Undefined

\* action.parse(arguments): JSON.parse, then the action's schema.
ActionParse(name, text) ==
    LET json == JSON_parse(text)
    IN  IF json.threw THEN json
        ELSE CASE name = "locateElement" -> locateElementSchema(json.value)
               [] name = "locator_click" -> locatorElementIdSchema(json.value)
               [] name = "locator_selectOption" -> locatorSelectOptionSchema(json.value)
               [] name = "expect_toBe" -> expectToBeSchema(json.value)
               [] name = "expect_notToBe" -> expectToBeSchema(json.value)
               [] name = "resultAssertion" -> resultAssertionSchema(json.value)
               [] name = "resultQuery" -> resultQuerySchema(json.value)
               [] name = "resultAction" -> emptyObjectSchema(json.value)
               [] name = "resultError" -> resultErrorSchema(json.value)
               [] name = "locator_isVisible" -> locatorElementIdSchema(json.value)
               [] name = "locator_count" -> locatorElementIdSchema(json.value)
               [] name = "page_goto" -> pageGotoSchema(json.value)
               [] name = "locateElementsByRole" -> locateElementsByRoleSchema(json.value)
               [] name = "locateElementsWithText" -> locateElementsWithTextSchema(json.value)
               [] name = "getVisibleStructure" -> emptyObjectSchema(json.value)

\* Mutant: the last node the selector matches is stamped.
locateElement_LastMatch(args, pg, n) ==
    LET locator == QuerySelectorAll(pg, args.cssSelector)
        elementId == randomUUID(n + 1)
    IN  IF locator = <<>>
        THEN Fail(TimeoutError, pg, n + 1)
        ELSE Done([elementId |-> elementId],
                  [pg EXCEPT !.markers[locator[Len(locator)]] = elementId], n + 1)

\* part_000:171-182
locateElement(args, pg, n) ==
    LET locator == QuerySelectorAll(pg, args.cssSelector)
        elementId == randomUUID(n + 1)
    IN  IF locator = <<>>
        THEN Fail(TimeoutError, pg, n + 1)
        ELSE Done([elementId |-> elementId],
                  [pg EXCEPT !.markers[Head(locator)] = elementId], n + 1)

\* Mutant: a click through a locator that resolves to no node is a no-op that
\* succeeds.
locator_click_NoWait(args, pg, n) ==
    LET locator == getLocator(pg, args.elementId)
    IN  IF locator = <<>> THEN Done([success |-> "true"], pg, n)
        ELSE IF Len(locator) > 1 THEN Fail(StrictModeError, pg, n)
        ELSE Done([success |-> "true"],
                  [pg EXCEPT !.clicked = @ \cup {Head(locator)}], n)

\* part_000:451-455
locator_click(args, pg, n) ==
    LET locator == getLocator(pg, args.elementId)
    IN  IF locator = <<>> THEN Fail(TimeoutError, pg, n)
        ELSE IF Len(locator) > 1 THEN Fail(StrictModeError, pg, n)
        ELSE Done([success |-> "true"],
                  [pg EXCEPT !.clicked = @ \cup {Head(locator)}], n)

\* part_000:419-423; isVisible() of the driver does not wait: a locator that
\* resolves to no node is not visible.
locator_isVisible(args, pg, n) ==
    LET locator == getLocator(pg, args.elementId)
    IN  IF Len(locator) > 1 THEN Fail(StrictModeError, pg, n)
        ELSE Done([isVisible |-> IF locator # <<>> /\ IsVisible(Head(locator))
                                 THEN "true" ELSE "false"], pg, n)

\* part_000:467-471; count() of the driver counts the nodes the locator resolves to.
locator_count(args, pg, n) ==
    Done([elementCount |-> ToString(Len(getLocator(pg, args.elementId)))], pg, n)

\* part_000:500-504; the navigation replaces the document by a freshly loaded one.
page_goto(args, pg, n) == Done([url |-> args.url], InitialPage, n)

\* Mutant: one UUID is drawn before the loop and stamped on every node.
StampEach_OneUUID(nodes, pg, n) ==
    [page |-> [pg EXCEPT !.markers =
                 [m \in Elements |->
                    IF \E k \in 1..Len(nodes) : nodes[k] = m THEN randomUUID(n + 1)
                    ELSE pg.markers[m]]],
     uuids |-> IF nodes = <<>> THEN n ELSE n + 1,
     elementIds |-> [k \in 1..Len(nodes) |-> randomUUID(n + 1)]]

\* Mutant: a node that carries a marker keeps it; the new UUID is handed out all
\* the same.
RECURSIVE StampEach_KeepsMarker(_, _, _)
StampEach_KeepsMarker(nodes, pg, n) ==
    IF nodes = <<>> THEN [page |-> pg, uuids |-> n, elementIds |-> <<>>]
    ELSE LET elementId == randomUUID(n + 1)
             stamped == IF pg.markers[Head(nodes)] = NoMarker
                        THEN [pg EXCEPT !.markers[Head(nodes)] = elementId]
                        ELSE pg
             rest == StampEach_KeepsMarker(Tail(nodes), stamped, n + 1)
         IN  [rest EXCEPT !.elementIds = <<elementId>> \o @]

\* part_000:831-838, 875-884: the for loop over the locators; each node gets a
\* UUID of its own as its data-element-id, and the UUIDs are collected in order.
RECURSIVE StampEach(_, _, _)
StampEach(nodes, pg, n) ==
    IF nodes = <<>> THEN [page |-> pg, uuids |-> n, elementIds |-> <<>>]
    ELSE LET elementId == randomUUID(n + 1)
             rest == StampEach(Tail(nodes),
                               [pg EXCEPT !.markers[Head(nodes)] = elementId], n + 1)
         IN  [rest EXCEPT !.elementIds = <<elementId>> \o @]

\* args.exact ?? false
Exact(args) == "exact" \in DOMAIN args /\ args.exact = "true"

\* part_000:824-844
locateElementsByRole(args, pg, n) ==
    LET stamped == StampEach(getByRole(pg, args.role), pg, n)
    IN  Done([elementIds |-> stamped.elementIds,
              count |-> ToString(Len(stamped.elementIds))],
             stamped.page, stamped.uuids)

\* Mutant: the test of locator.isVisible() is left out.
locateElementsWithText_NoVisibleCheck(args, pg, n) ==
    LET stamped == StampEach(getByText(pg, args.text, Exact(args)), pg, n)
    IN  Done([elementIds |-> stamped.elementIds,
              count |-> ToString(Len(stamped.elementIds))],
             stamped.page, stamped.uuids)

\* part_000:867-890: only the locators that are visible are stamped.
locateElementsWithText(args, pg, n) ==
    LET visible == SelectSeq(getByText(pg, args.text, Exact(args)), IsVisible)
        stamped == StampEach(visible, pg, n)
    IN  Done([elementIds |-> stamped.elementIds,
              count |-> ToString(Len(stamped.elementIds))],
             stamped.page, stamped.uuids)

\* The option of <select id="fruits"> that a value, a label or an index names
\* (actions.spec.ts:88-92), "" when it names none.
OptionNamed(field, v) ==
    IF field = "value" /\ v \in {"'banana'", "['banana']"} THEN "banana"
    ELSE IF field = "label" /\ v \in {"'Banana'", "['Banana']"} THEN "banana"
    ELSE IF field = "index" /\ v \in {"1", "[1]"} THEN "banana"
    ELSE IF field = "index" /\ v = "0" THEN "apple"
    ELSE ""

\* locator.selectOption(...) of the driver: the locator must resolve to one node, a
\* <select>, that holds the option.
SelectOptionOn(locator, option, pg, n) ==
    IF locator = <<>> THEN Fail(TimeoutError, pg, n)
    ELSE IF Len(locator) > 1 THEN Fail(StrictModeError, pg, n)
    ELSE IF Head(locator) # "fruits"
    THEN Fail("Error: Element is not a <select> element", pg, n)
    ELSE IF option = "" THEN Fail(TimeoutError, pg, n)
    ELSE Done([success |-> "true"], [pg EXCEPT !.selected = {option}], n)

\* part_000:519-554
locator_selectOption(args, pg, n) ==
    LET has(k) == k \in DOMAIN args
        locator == IF Truthy(args, "elementId") THEN getLocator(pg, args.elementId)
                   ELSE QuerySelectorAll(pg, args.cssSelector)
    IN  IF ~Truthy(args, "elementId") /\ ~Truthy(args, "cssSelector")
        THEN Fail("You must provide either an elementId or a cssSelector.", pg, n)
        ELSE IF has("value")
        THEN SelectOptionOn(locator, OptionNamed("value", args.value), pg, n)
        ELSE IF has("label")
        THEN SelectOptionOn(locator, OptionNamed("label", args.label), pg, n)
        ELSE IF has("index")
        THEN SelectOptionOn(locator, OptionNamed("index", args.index), pg, n)
        ELSE Fail("You must provide at least one of the parameters: value, label, or index.",
                  pg, n)

\* part_000:594-601
expect_toBe(args, pg, n) ==
    Done([actual |-> args.actual, expected |-> args.expected,
          success |-> IF args.actual = args.expected THEN "true" ELSE "false"], pg, n)

\* Mutant: expect_notToBe compares as expect_toBe does.
expect_notToBe_Equal(args, pg, n) ==
    Done([actual |-> args.actual, expected |-> args.expected,
          success |-> IF args.actual = args.expected THEN "true" ELSE "false"], pg, n)

\* part_000:615-622
expect_notToBe(args, pg, n) ==
    Done([actual |-> args.actual, expected |-> args.expected,
          success |-> IF args.actual # args.expected THEN "true" ELSE "false"], pg, n)

\* part_000:636-639
resultAssertion(args, pg, n) == Done(args, pg, n)
\* part_000:652-655
resultQuery(args, pg, n) == Done(args, pg, n)
\* part_000:668-671
resultAction(args, pg, n) == Done([success |-> "true"], pg, n)
\* part_000:681-684
resultError(args, pg, n) == Done([errorMessage |-> args.errorMessage], pg, n)

(***************************************************************************)
(* getVisibleStructure (part_000:697-823)                                  *)
(***************************************************************************)
\* part_000:702
maxDepth == 30

JsFalse == [js |-> "false"]

\* element.tagName.toLowerCase(): tagName of an HTML element is in upper case.
ToLowerCase(tagName) ==
    CASE tagName = "BODY" -> "body"
      [] tagName = "DIV" -> "div"
      [] tagName = "SPAN" -> "span"
      [] tagName = "SCRIPT" -> "script"
      [] tagName = "BUTTON" -> "button"
      [] tagName = "SELECT" -> "select"
      [] tagName = "OPTION" -> "option"

\* Mutant: only display none hides an element.
IsHiddenByStyle_DisplayOnly(style) == style.display = "none"

\* part_000:712-719: display none, visibility hidden or opacity "0".
IsHiddenByStyle(style) ==
    style.display = "none" \/ style.visibility = "hidden" \/ style.opacity = "0"

\* Mutant: an empty allow-list allows every tag.
IsAllowedTag_EmptyAllowsAll(allowedTags, tag) == allowedTags = {} \/ tag \in allowedTags

\* part_000:722: allowedTags.includes(tag)
IsAllowedTag(allowedTags, tag) == tag \in allowedTags

\* element.attributes: the attributes of the markup and the data-element-id a
\* locating action has stamped on the node.
ElementAttributes(markers, element) ==
    element.attributes
    \o (IF \E i \in 1..Len(element.attributes) :
              /\ element.attributes[i].name = "id"
              /\ element.attributes[i].value \in DOMAIN markers
              /\ markers[element.attributes[i].value] # NoMarker
        THEN LET i == CHOOSE i \in 1..Len(element.attributes) :
                          element.attributes[i].name = "id"
             IN  <<Attr("data-element-id", markers[element.attributes[i].value])>>
        ELSE <<>>)

\* element.getAttribute(name), with "" for the null of an absent attribute: both
\* are falsy in the tests of part_000:763-775.
GetAttribute(attributes, name) ==
    IF \E i \in 1..Len(attributes) : attributes[i].name = name
    THEN attributes[CHOOSE i \in 1..Len(attributes) : attributes[i].name = name].value
    ELSE ""

\* allowedAttributes[key]: undefined for a key the object does not hold.
PolicyFor(allowedAttributes, key) ==
    IF key \in DOMAIN allowedAttributes.keys THEN allowedAttributes.keys[key]
    ELSE Undefined

\* Mutant: an entry for the tag replaces the global entry.
AttributeAllowed_TagReplacesGlobal(allowedAttributes, tag, attrName) ==
    LET allowedForAll == PolicyFor(allowedAttributes, "*")
        allowedForTag == PolicyFor(allowedAttributes, tag)
    IN  IF allowedForTag # Undefined
        THEN allowedForTag.all \/ attrName \in allowedForTag.names
        ELSE allowedForAll # Undefined
             /\ (allowedForAll.all \/ attrName \in allowedForAll.names)

\* part_000:744-751: the test that lets an attribute through.
AttributeAllowed(allowedAttributes, tag, attrName) ==
    LET allowedForAll == PolicyFor(allowedAttributes, "*")
        allowedForTag == PolicyFor(allowedAttributes, tag)
    IN  \/ allowedForTag # Undefined /\ allowedForTag.all
        \/ allowedForAll # Undefined /\ allowedForAll.all
        \/ allowedForTag # Undefined /\ attrName \in allowedForTag.names
        \/ allowedForAll # Undefined /\ attrName \in allowedForAll.names

\* part_000:732-760: node.attributes
CopyAttributes(allowedAttributes, tag, attributes) ==
    LET copied == IF allowedAttributes = JsFalse
                  THEN {i \in 1..Len(attributes) : TRUE}
                  ELSE IF allowedAttributes = Undefined
                  THEN {}
                  ELSE {i \in 1..Len(attributes) :
                          AttributeAllowed(allowedAttributes, tag, attributes[i].name)}
    IN  [name \in {attributes[i].name : i \in copied} |->
            GetAttribute(attributes, name)]

\* String.prototype.trim() for blanks.
RECURSIVE TrimStart(_)
TrimStart(text) ==
    IF Len(text) > 0 /\ SubSeq(text, 1, 1) = " "
    THEN TrimStart(SubSeq(text, 2, Len(text))) ELSE text
RECURSIVE TrimEnd(_)
TrimEnd(text) ==
    IF Len(text) > 0 /\ SubSeq(text, Len(text), Len(text)) = " "
    THEN TrimEnd(SubSeq(text, 1, Len(text) - 1)) ELSE text
Trim(text) == TrimEnd(TrimStart(text))

\* Mutant: the text of the first child node is taken whatever follows it.
NodeText_FirstChild(element) ==
    IF Len(element.childNodes) >= 1 /\ element.childNodes[1].nodeType = 3
    THEN LET text == Trim(element.childNodes[1].data)
         IN  IF Len(text) > 50 THEN SubSeq(text, 1, 50) \o "..." ELSE text
    ELSE ""

\* part_000:782-791: the text of an element whose only child node is a text node,
\* trimmed and cut after 50 characters; "" when node.text is not set.
NodeText(element) ==
    IF Len(element.childNodes) = 1 /\ element.childNodes[1].nodeType = 3
    THEN LET text == Trim(element.childNodes[1].data)
         IN  IF Len(text) > 50 THEN SubSeq(text, 1, 50) \o "..." ELSE text
    ELSE ""

\* element.children: the child nodes that are elements.
Children(element) == SelectSeq(element.childNodes, LAMBDA c : c.nodeType = 1)

\* Mutant: the children of a node at depth maxDepth - 1 are visited too.
MayDescend_Inclusive(depth, limit) == depth + 1 <= limit

\* part_000:793: depth + 1 < maxDepth
MayDescend(depth, limit) == depth + 1 < limit

\* part_000:706-806; env is what page.evaluate hands over (allowedTags,
\* allowedAttributes, maxDepth) and the markers of the page.  The keys id, role,
\* ariaLabel, className and text are set only when their value is not empty
\* (part_000:762-791).
RECURSIVE extractVisibleStructure(_, _, _)
extractVisibleStructure(element, depth, env) ==
    IF \/ element = Null
       \/ depth > env.maxDepth
       \/ IsHiddenByStyle(element.style)
       \/ ~IsAllowedTag(env.allowedTags, ToLowerCase(element.tagName))
    THEN Null
    ELSE LET tag == ToLowerCase(element.tagName)
             attributes == ElementAttributes(env.markers, element)
             kids == Children(element)
             visited == IF MayDescend(depth, env.maxDepth) THEN 1..Len(kids) ELSE {}
             optional == [id |-> GetAttribute(attributes, "id"),
                          role |-> GetAttribute(attributes, "role"),
                          ariaLabel |-> GetAttribute(attributes, "aria-label"),
                          className |-> Trim(GetAttribute(attributes, "class")),
                          text |-> NodeText(element)]
         IN  [tag |-> tag,
              attributes |-> CopyAttributes(env.allowedAttributes, tag, attributes),
              children |->
                  SelectSeq([i \in visited |->
                                extractVisibleStructure(kids[i], depth + 1, env)],
                            LAMBDA child : child # Null)]
             @@ [key \in {k \in DOMAIN optional : optional[k] # ""} |-> optional[key]]

\* part_000:698-811
getVisibleStructure(args, pg, n) ==
    LET allowedTags == sanitizeOptions.allowedTags
        allowedAttributes == sanitizeOptions.allowedAttributes
    IN  Done([structure |->
                extractVisibleStructure(pg.body, 0,
                    [allowedTags |-> allowedTags, allowedAttributes |-> allowedAttributes,
                     maxDepth |-> maxDepth, markers |-> pg.markers])],
             pg, n)

\* action.function(parsedArgs)
ActionFunction(name, args, pg, n) ==
    CASE name = "locateElement" -> locateElement(args, pg, n)
      [] name = "locator_click" -> locator_click(args, pg, n)
      [] name = "locator_selectOption" -> locator_selectOption(args, pg, n)
      [] name = "expect_toBe" -> expect_toBe(args, pg, n)
      [] name = "expect_notToBe" -> expect_notToBe(args, pg, n)
      [] name = "resultAssertion" -> resultAssertion(args, pg, n)
      [] name = "resultQuery" -> resultQuery(args, pg, n)
      [] name = "resultAction" -> resultAction(args, pg, n)
      [] name = "resultError" -> resultError(args, pg, n)
      [] name = "locator_isVisible" -> locator_isVisible(args, pg, n)
      [] name = "locator_count" -> locator_count(args, pg, n)
      [] name = "page_goto" -> page_goto(args, pg, n)
      [] name = "locateElementsByRole" -> locateElementsByRole(args, pg, n)
      [] name = "locateElementsWithText" -> locateElementsWithText(args, pg, n)
      [] name = "getVisibleStructure" -> getVisibleStructure(args, pg, n)

\* name.startsWith("result") (completeTask.ts:87) over the names a call can carry.
StartsWithResult(name) ==
    name \in {"resultAssertion", "resultQuery", "resultAction", "resultError",
              "resultSummary"}

\* Mutant: parse stops at JSON.parse; the execution body runs on arguments that no
\* schema has seen.
TryOutcome_NoSchema(toolCall, action, pg, n) ==
    LET name == toolCall.function.name
        parsed == IF action = [js |-> "ActionTool"]
                  THEN JSON_parse(toolCall.function.arguments)
                  ELSE Throw("TypeError: action.parse is not a function")
    IN  IF parsed.threw THEN Fail(parsed.message, pg, n)
        ELSE ActionFunction(name, parsed.value, pg, n)

\* completeTask.ts:79-80: parse the arguments, then run the execution body; a throw
\* of either leaves the try block.
TryOutcome(toolCall, action, pg, n) ==
    LET name == toolCall.function.name
        parsed == IF action = [js |-> "ActionTool"]
                  THEN ActionParse(name, toolCall.function.arguments)
                  ELSE Throw("TypeError: action.parse is not a function")
    IN  IF parsed.threw THEN Fail(parsed.message, pg, n)
        ELSE ActionFunction(name, parsed.value, pg, n)

\* Mutant: the first recorded terminal result is kept.
TryToolCall_FirstWriteWins(toolCall, action, slot, pg, n) ==
    LET ran == TryOutcome(toolCall, action, pg, n)
    IN  [content |-> IF ran.threw THEN JSON_stringify([error |-> ran.message])
                     ELSE JSON_stringify(ran.value),
         slot |-> IF ~ran.threw /\ StartsWithResult(toolCall.function.name) /\ Falsy(slot)
                  THEN ran.value ELSE slot,
         page |-> ran.page,
         uuids |-> ran.uuids]

\* Mutant: a failure of the execution body is reported under another key than a
\* failure of validation.
TryToolCall_TwoPayloadShapes(toolCall, action, slot, pg, n) ==
    LET ran == TryOutcome(toolCall, action, pg, n)
        validated == ~ActionParse(toolCall.function.name, toolCall.function.arguments).threw
    IN  [content |-> IF ran.threw
                     THEN (IF action = [js |-> "ActionTool"] /\ validated
                           THEN JSON_stringify([executionError |-> ran.message])
                           ELSE JSON_stringify([error |-> ran.message]))
                     ELSE JSON_stringify(ran.value),
         slot |-> IF ~ran.threw /\ StartsWithResult(toolCall.function.name)
                  THEN ran.value ELSE slot,
         page |-> ran.page,
         uuids |-> ran.uuids]

\* Mutant: the value of every action that executed is recorded.
TryToolCall_AnyAction(toolCall, action, slot, pg, n) ==
    LET ran == TryOutcome(toolCall, action, pg, n)
    IN  [content |-> IF ran.threw THEN JSON_stringify([error |-> ran.message])
                     ELSE JSON_stringify(ran.value),
         slot |-> IF ~ran.threw THEN ran.value ELSE slot,
         page |-> ran.page,
         uuids |-> ran.uuids]

\* The try block of completeTask.ts:78-105 for one call whose lookup was truthy:
\* the tool-result payload, the slot, the page and the UUID counter it leaves.
TryToolCall(toolCall, action, slot, pg, n) ==
    LET ran == TryOutcome(toolCall, action, pg, n)
    IN  [content |-> IF ran.threw THEN JSON_stringify([error |-> ran.message])
                     ELSE JSON_stringify(ran.value),
         slot |-> IF ~ran.threw /\ StartsWithResult(toolCall.function.name)
                  THEN ran.value ELSE slot,
         page |-> ran.page,
         uuids |-> ran.uuids]

(***************************************************************************)
(* What the model may answer.  The model is outside the program: a         *)
(* response is any message, and a requested call is drawn from a catalog   *)
(* of representative calls.                                                *)
(***************************************************************************)
FunctionCall(name, arguments) ==
    [type |-> "function", function |-> [name |-> name, arguments |-> arguments]]
CustomCall == [type |-> "custom", custom |-> [name |-> "shell", input |-> "'ls'"]]

TaskCalls ==
    {FunctionCall("resultAssertion", [assertion |-> "false"]),
     FunctionCall("resultAssertion", [assertion |-> "true", comment |-> "'x'"]),
     FunctionCall("resultQuery", [query |-> "''"]),
     FunctionCall("resultQuery", MalformedJson),
     FunctionCall("resultAction", EmptyObject),
     FunctionCall("resultError", [errorMessage |-> "'cannot'"]),
     FunctionCall("resultError", [errorMessage |-> "true"]),
     FunctionCall("locateElement", [cssSelector |-> "'#test-button'"]),
     FunctionCall("locator_click", [elementId |-> "'uuid-1'"]),
     FunctionCall("expect_toBe", [actual |-> "'a'", expected |-> "'b'"]),
     FunctionCall("page_reload", EmptyObject),
     FunctionCall("toString", EmptyObject),
     CustomCall}

\* An object with the given keys, each holding a value of its declared type.
SelectOptionArguments(keys) ==
    [k \in keys |-> CASE k = "elementId" -> "'uuid-1'"
                      [] k = "cssSelector" -> "'#fruits'"
                      [] k = "value" -> "'banana'"
                      [] k = "label" -> "'Banana'"
                      [] k = "index" -> "1"]

\* Calls of locator_selectOption with every combination of its five fields, with
\* ill-typed fields, with an empty elementId and with text that is not JSON; a
\* locateElement call that stamps the <select>; a result-class call.
SelectCalls ==
    {FunctionCall("locator_selectOption", SelectOptionArguments(keys)) :
        keys \in SUBSET {"elementId", "cssSelector", "value", "label", "index"}}
    \cup {FunctionCall("locator_selectOption", [elementId |-> "0", value |-> "'banana'"]),
          FunctionCall("locator_selectOption", [cssSelector |-> "'#fruits'", index |-> "'banana'"]),
          FunctionCall("locator_selectOption", [elementId |-> "''", value |-> "'banana'"]),
          FunctionCall("locator_selectOption", MalformedJson),
          FunctionCall("locateElement", [cssSelector |-> "'#fruits'"]),
          FunctionCall("resultAction", EmptyObject)}

\* Calls of the three locating actions with a predicate that matches several nodes
\* and one that matches none, calls that use the first identifier, a navigation.
LocateCalls ==
    {FunctionCall("locateElement", [cssSelector |-> "'button'"]),
     FunctionCall("locateElement", [cssSelector |-> "'#missing'"]),
     FunctionCall("locateElementsByRole", [role |-> "'button'"]),
     FunctionCall("locateElementsByRole", [role |-> "'grid'", exact |-> "true"]),
     FunctionCall("locateElementsWithText", [text |-> "'Save changes'"]),
     FunctionCall("locateElementsWithText", [text |-> "'Nothing'"]),
     FunctionCall("locator_click", [elementId |-> "'uuid-1'"]),
     FunctionCall("locator_isVisible", [elementId |-> "'uuid-1'"]),
     FunctionCall("locator_count", [elementId |-> "'uuid-1'"]),
     FunctionCall("page_goto", [url |-> "'http://localhost/'"])}

\* One call of each kind the for loop tells apart: a result-class call, a call whose
\* execution body fails, a call with text that is not JSON, a call of an unknown
\* name, a call that is no function call.
LiveCalls ==
    {FunctionCall("resultAction", EmptyObject),
     FunctionCall("locator_click", [elementId |-> "'uuid-1'"]),
     FunctionCall("resultQuery", MalformedJson),
     FunctionCall("page_reload", EmptyObject),
     CustomCall}

\* Calls that leave a trace on the page or in the slot.
TwoCalls ==
    {FunctionCall("locateElement", [cssSelector |-> "'#test-button'"]),
     FunctionCall("locator_click", [elementId |-> "'uuid-1'"]),
     FunctionCall("resultAction", EmptyObject)}

\* A call of getVisibleStructure and a result-class call.
StructureCalls ==
    {FunctionCall("getVisibleStructure", EmptyObject),
     FunctionCall("resultAction", EmptyObject)}

\* The strings the model has compared.
ComparedStrings == {"''", "'a'", "'b'"}

\* Calls of expect_toBe and expect_notToBe on every pair of the strings, calls of
\* both with a value that is no string, a result-class call.
ExpectCalls ==
    {FunctionCall(name, [actual |-> actual, expected |-> expected]) :
        name \in {"expect_toBe", "expect_notToBe"},
        actual \in ComparedStrings, expected \in ComparedStrings}
    \cup {FunctionCall(name, [actual |-> "1", expected |-> "'a'"]) :
            name \in {"expect_toBe", "expect_notToBe"}}
    \cup {FunctionCall("resultAssertion", [assertion |-> "false"])}

\* The call with the id the model gave it: ids are unique within a task.
WithId(call, id) ==
    [k \in DOMAIN call \cup {"id"} |-> IF k = "id" THEN id ELSE call[k]]

\* Number of tool calls requested by the assistant messages of a conversation.
RECURSIVE RequestedCalls(_)
RequestedCalls(msgs) ==
    IF msgs = <<>> THEN 0
    ELSE (IF "tool_calls" \in DOMAIN Head(msgs) THEN Len(Head(msgs).tool_calls) ELSE 0)
         + RequestedCalls(Tail(msgs))

\* The responses that carry no tool call: no message at all (choices is empty), a
\* text message, a message with an empty tool_calls list.
FinalResponses ==
    {Undefined,
     [role |-> "assistant", content |-> "'Done.'"],
     [role |-> "assistant", content |-> "'Done.'", tool_calls |-> <<>>]}

(***************************************************************************)
(* What surrounds one invocation of completeTask                           *)
(***************************************************************************)
\* `suspended` when completeTask has been invoked once only.
NoTask == [pc |-> "none"]

\* allowedAttributes[key] of the sanitizer configuration: `true`, or an array of
\* attribute names.
AllowAll == [all |-> TRUE, names |-> {}]
AllowNames(names) == [all |-> FALSE, names |-> names]

\* A configuration getSanitizeOptions() may return: the tags of the fixture
\* documents, the attributes `type` and `href` for every tag, every attribute of
\* <select>.
DefaultSanitizeOptions ==
    [allowedTags |-> {"body", "div", "button", "select", "option"},
     allowedAttributes |-> [keys |-> [k \in {"*", "select"} |->
                                        IF k = "*" THEN AllowNames({"type", "href"})
                                        ELSE AllowAll]]]

(***************************************************************************)
(* completeTask (completeTask.ts:8-143)                                    *)
(***************************************************************************)
\* completeTask.ts:19-51: the state when the first model request is in flight.
Init ==
    /\ messages = <<[role |-> "system", content |-> "SYSTEM_PROMPT"],
                    [role |-> "user", content |-> "prompt(task)"]>>
    /\ message = Undefined
    /\ toolCallResults = <<>>
    /\ toolCallIndex = 1
    /\ lastFunctionResult = Null
    /\ pc = "awaiting_model"
    /\ returned = Undefined
    /\ error = NoError
    /\ page = InitialPage
    /\ uuids = 0
    /\ sanitizeOptions = DefaultSanitizeOptions
    /\ suspended = NoTask
    /\ request = messages

\* completeTask.ts:60: message?.tool_calls && message.tool_calls.length > 0
LoopCondition(m) == "tool_calls" \in DOMAIN m /\ Len(m.tool_calls) > 0

\* completeTask.ts:53/119 then 60-65: a response that requests tool calls arrives;
\* the assistant message is pushed and the for loop starts.
ModelRequestsTools(catalog, max) ==
    /\ pc = "awaiting_model"
    /\ \E n \in 1..(max - RequestedCalls(messages)) :
         \E calls \in [1..n -> catalog] :
           LET m == [role |-> "assistant", content |-> "null",
                     tool_calls |->
                        [k \in 1..n |-> WithId(calls[k], RequestedCalls(messages) + k)]]
           IN  /\ LoopCondition(m)
               /\ message' = m
               /\ messages' = Append(messages, m)
               /\ toolCallResults' = <<>>
               /\ toolCallIndex' = 1
               /\ pc' = "dispatching"
    /\ UNCHANGED <<lastFunctionResult, returned, error, page, uuids>>
    /\ UNCHANGED <<sanitizeOptions, suspended, request>>

\* Mutant: the slot is returned without the check of completeTask.ts:132.
ModelStops_NoCheck ==
    /\ pc = "awaiting_model"
    /\ \E m \in FinalResponses :
         /\ ~LoopCondition(m)
         /\ message' = m
    /\ pc' = "done"
    /\ returned' = lastFunctionResult
    /\ UNCHANGED <<messages, toolCallResults, toolCallIndex, lastFunctionResult,
                   error, page, uuids>>
    /\ UNCHANGED <<sanitizeOptions, suspended, request>>

\* completeTask.ts:53/119 then 60, 126-142: a response without tool calls arrives;
\* the loop is left and the slot decides between returning and throwing.
ModelStops ==
    /\ pc = "awaiting_model"
    /\ \E m \in FinalResponses :
         /\ ~LoopCondition(m)
         /\ message' = m
    /\ IF Falsy(lastFunctionResult)
       THEN /\ pc' = "failed"
            /\ error' = <<"Expected to have a result from one of the result functions">>
            /\ UNCHANGED returned
       ELSE /\ pc' = "done"
            /\ returned' = lastFunctionResult
            /\ UNCHANGED error
    /\ UNCHANGED <<messages, toolCallResults, toolCallIndex, lastFunctionResult, page, uuids>>
    /\ UNCHANGED <<sanitizeOptions, suspended, request>>

\* The call the for loop of completeTask.ts:67 is at.
InLoop == pc = "dispatching" /\ toolCallIndex <= Len(message.tool_calls)
\* Mutant: the batch is walked from its last call to its first.
toolCall_LastFirst == message.tool_calls[Len(message.tool_calls) + 1 - toolCallIndex]
toolCall == message.tool_calls[toolCallIndex]

\* Mutant: the loop does not move past a call whose type is not "function".
SkipToolCall_NoAdvance ==
    /\ InLoop
    /\ toolCall.type # "function"
    /\ toolCallIndex' = toolCallIndex
    /\ UNCHANGED <<messages, message, toolCallResults, lastFunctionResult, pc,
                   returned, error, page, uuids>>
    /\ UNCHANGED <<sanitizeOptions, suspended, request>>

\* Mutant: a call whose type is not "function" is answered with an error
\* tool-result.
SkipToolCall_AnswersError ==
    /\ InLoop
    /\ toolCall.type # "function"
    /\ toolCallResults' =
          Append(toolCallResults,
                 [tool_call_id |-> toolCall.id, role |-> "tool",
                  content |-> [error |-> "Unsupported tool call type"]])
    /\ toolCallIndex' = toolCallIndex + 1
    /\ UNCHANGED <<messages, message, lastFunctionResult, pc,
                   returned, error, page, uuids>>
    /\ UNCHANGED <<sanitizeOptions, suspended, request>>

\* completeTask.ts:68: a call whose type is not "function" is passed over.
SkipToolCall ==
    /\ InLoop
    /\ toolCall.type # "function"
    /\ toolCallIndex' = toolCallIndex + 1
    /\ UNCHANGED <<messages, message, toolCallResults, lastFunctionResult, pc,
                   returned, error, page, uuids>>
    /\ UNCHANGED <<sanitizeOptions, suspended, request>>

\* completeTask.ts:73-76
ThrowUnknownFunction ==
    /\ InLoop
    /\ toolCall.type = "function"
    /\ Falsy(ActionsLookup(toolCall.function.name))
    /\ pc' = "failed"
    /\ error' = <<"Unknown function: ", toolCall.function.name>>
    /\ UNCHANGED <<messages, message, toolCallResults, toolCallIndex,
                   lastFunctionResult, returned, page, uuids>>
    /\ UNCHANGED <<sanitizeOptions, suspended, request>>

\* Mutant: no catch; a throw of parse or of the execution body leaves completeTask.
DispatchToolCall_NoCatch ==
    /\ InLoop
    /\ toolCall.type = "function"
    /\ ~Falsy(ActionsLookup(toolCall.function.name))
    /\ LET ran == TryOutcome(toolCall, ActionsLookup(toolCall.function.name), page, uuids)
           r == TryToolCall(toolCall, ActionsLookup(toolCall.function.name),
                            lastFunctionResult, page, uuids)
       IN  /\ lastFunctionResult' = r.slot
           /\ page' = r.page
           /\ uuids' = r.uuids
           /\ IF ran.threw
              THEN /\ pc' = "failed"
                   /\ error' = <<ran.message>>
                   /\ UNCHANGED <<toolCallResults, toolCallIndex>>
              ELSE /\ toolCallResults' =
                         Append(toolCallResults,
                                [tool_call_id |-> toolCall.id, role |-> "tool",
                                 content |-> r.content])
                   /\ toolCallIndex' = toolCallIndex + 1
                   /\ UNCHANGED <<pc, error>>
    /\ UNCHANGED <<messages, message, returned>>
    /\ UNCHANGED <<sanitizeOptions, suspended, request>>

\* Mutant: a result-class call that executed ends the task at once.
DispatchToolCall_ReturnsAtResult ==
    /\ InLoop
    /\ toolCall.type = "function"
    /\ ~Falsy(ActionsLookup(toolCall.function.name))
    /\ LET r == TryToolCall(toolCall, ActionsLookup(toolCall.function.name),
                            lastFunctionResult, page, uuids)
           recorded == /\ StartsWithResult(toolCall.function.name)
                       /\ ~IsErrorPayload(r.content)
       IN  /\ toolCallResults' =
                 Append(toolCallResults,
                        [tool_call_id |-> toolCall.id, role |-> "tool", content |-> r.content])
           /\ lastFunctionResult' = r.slot
           /\ page' = r.page
           /\ uuids' = r.uuids
           /\ IF recorded
              THEN pc' = "done" /\ returned' = r.slot
              ELSE UNCHANGED <<pc, returned>>
    /\ toolCallIndex' = toolCallIndex + 1
    /\ UNCHANGED <<messages, message, error>>
    /\ UNCHANGED <<sanitizeOptions, suspended, request>>

\* completeTask.ts:73-105: one iteration of the for loop for a call whose lookup
\* gave something.
DispatchToolCall ==
    /\ InLoop
    /\ toolCall.type = "function"
    /\ ~Falsy(ActionsLookup(toolCall.function.name))
    /\ LET r == TryToolCall(toolCall, ActionsLookup(toolCall.function.name),
                            lastFunctionResult, page, uuids)
       IN  /\ toolCallResults' =
                 Append(toolCallResults,
                        [tool_call_id |-> toolCall.id, role |-> "tool", content |-> r.content])
           /\ lastFunctionResult' = r.slot
           /\ page' = r.page
           /\ uuids' = r.uuids
    /\ toolCallIndex' = toolCallIndex + 1
    /\ UNCHANGED <<messages, message, pc, returned, error>>
    /\ UNCHANGED <<sanitizeOptions, suspended, request>>

\* Mutant: the results of the batch are put at the front of the conversation
\* (unshift for push).
AppendToolResults_Unshift ==
    /\ pc = "dispatching"
    /\ toolCallIndex > Len(message.tool_calls)
    /\ messages' = toolCallResults \o messages
    /\ request' = messages'
    /\ pc' = "awaiting_model"
    /\ UNCHANGED <<message, toolCallResults, toolCallIndex, lastFunctionResult,
                   returned, error, page, uuids>>
    /\ UNCHANGED <<sanitizeOptions, suspended>>

\* completeTask.ts:110-117: the for loop is over; the batch's results are pushed and
\* the next model request is issued with the conversation.
AppendToolResults ==
    /\ pc = "dispatching"
    /\ toolCallIndex > Len(message.tool_calls)
    /\ messages' = messages \o toolCallResults
    /\ request' = messages'
    /\ pc' = "awaiting_model"
    /\ UNCHANGED <<message, toolCallResults, toolCallIndex, lastFunctionResult,
                   returned, error, page, uuids>>
    /\ UNCHANGED <<sanitizeOptions, suspended>>

Next ==
    \/ ModelRequestsTools(TaskCalls, MaxToolCalls)
    \/ ModelStops
    \/ SkipToolCall
    \/ ThrowUnknownFunction
    \/ DispatchToolCall
    \/ AppendToolResults

Spec == Init /\ [][Next]_vars

\* A task in which the model calls locator_selectOption.
NextSelect ==
    \/ ModelRequestsTools(SelectCalls, MaxSelectCalls)
    \/ ModelStops
    \/ DispatchToolCall
    \/ AppendToolResults

SpecSelect == Init /\ [][NextSelect]_vars

\* A task in which every model request gets its response and every dispatched call
\* returns; the model stops asking for tools after MaxLiveCalls calls at the latest.
NextLive ==
    \/ ModelRequestsTools(LiveCalls, MaxLiveCalls)
    \/ ModelStops
    \/ SkipToolCall
    \/ ThrowUnknownFunction
    \/ DispatchToolCall
    \/ AppendToolResults

SpecLive == Init /\ [][NextLive]_vars /\ WF_vars(NextLive)

\* The variables that are local to one invocation of completeTask
\* (completeTask.ts:19-65), with the page it was given and the UUIDs it draws.
TaskLocals ==
    [messages |-> messages, message |-> message, toolCallResults |-> toolCallResults,
     toolCallIndex |-> toolCallIndex, lastFunctionResult |-> lastFunctionResult,
     pc |-> pc, returned |-> returned, error |-> error, page |-> page, uuids |-> uuids,
     request |-> request]

\* completeTask invoked twice, on two pages that hold the same document.
InitTwo ==
    /\ messages = <<[role |-> "system", content |-> "SYSTEM_PROMPT"],
                    [role |-> "user", content |-> "prompt(task)"]>>
    /\ message = Undefined
    /\ toolCallResults = <<>>
    /\ toolCallIndex = 1
    /\ lastFunctionResult = Null
    /\ pc = "awaiting_model"
    /\ returned = Undefined
    /\ error = NoError
    /\ page = InitialPage
    /\ uuids = 0
    /\ sanitizeOptions = DefaultSanitizeOptions
    /\ request = messages
    /\ suspended = TaskLocals

\* Mutant: lastFunctionResult is a variable of the module, shared by the
\* invocations.
Switch_SharedSlot ==
    /\ suspended # NoTask
    /\ suspended.pc \in {"awaiting_model", "dispatching"}
    /\ suspended' = TaskLocals
    /\ messages' = suspended.messages
    /\ message' = suspended.message
    /\ toolCallResults' = suspended.toolCallResults
    /\ toolCallIndex' = suspended.toolCallIndex
    /\ pc' = suspended.pc
    /\ returned' = suspended.returned
    /\ error' = suspended.error
    /\ page' = suspended.page
    /\ uuids' = suspended.uuids
    /\ request' = suspended.request
    /\ UNCHANGED <<lastFunctionResult, sanitizeOptions>>

\* Every step of completeTask ends at an await (completeTask.ts:46, 80, 113): there
\* the event loop may resume the other invocation, if it has not finished, which
\* finds its own locals
\* (completeTask.ts:19-65) and the actions bound to its own page (part_000:122).
Switch ==
    /\ suspended # NoTask
    /\ suspended.pc \in {"awaiting_model", "dispatching"}
    /\ suspended' = TaskLocals
    /\ messages' = suspended.messages
    /\ message' = suspended.message
    /\ toolCallResults' = suspended.toolCallResults
    /\ toolCallIndex' = suspended.toolCallIndex
    /\ lastFunctionResult' = suspended.lastFunctionResult
    /\ pc' = suspended.pc
    /\ returned' = suspended.returned
    /\ error' = suspended.error
    /\ page' = suspended.page
    /\ uuids' = suspended.uuids
    /\ request' = suspended.request
    /\ UNCHANGED sanitizeOptions

\* Two tasks on two pages, interleaved at their awaits.
NextTwo ==
    \/ ModelRequestsTools(TwoCalls, MaxTwoCalls)
    \/ ModelStops
    \/ DispatchToolCall
    \/ AppendToolResults
    \/ Switch

SpecTwo == InitTwo /\ [][NextTwo]_vars

\* `inside` wrapped in a chain of nested <div>s, <div id="d1"> outermost and
\* <div id="d{depth}"> innermost.  The length of `inside` is read at every level,
\* so that the chain is a value at every level and not a nest of pending
\* evaluations as deep as the chain.
RECURSIVE NestedDivs(_, _)
NestedDivs(depth, inside) ==
    IF depth = 0 \/ Len(inside) > 1 THEN inside
    ELSE NestedDivs(depth - 1,
                    <<Element("DIV", <<Attr("id", "d" \o ToString(depth))>>, VisibleStyle,
                              inside)>>)

\* <body> that holds a chain of `nesting` nested <div>s.
ChainBody(nesting) ==
    Element("BODY", <<Attr("id", "body")>>, VisibleStyle, NestedDivs(nesting, <<>>))

\* <body><A id="a"><C id="c">deep</C></A><B id="b" class=" wide "></B></body>
SmallBody(tagA, styleA, tagB, tagC) ==
    Element("BODY", <<Attr("id", "body")>>, VisibleStyle,
        <<Element(tagA, <<Attr("id", "a"), Attr("role", "main")>>, styleA,
                  <<Element(tagC, <<Attr("id", "c"), Attr("href", "#")>>, VisibleStyle,
                            <<TextNode(" deep ")>>)>>),
          Element(tagB, <<Attr("id", "b"), Attr("class", " wide ")>>, VisibleStyle,
                  <<>>)>>)

\* <body><div id="t">childNodes</div></body>
TextBody(childNodes) ==
    Element("BODY", <<Attr("id", "body")>>, VisibleStyle,
            <<Element("DIV", <<Attr("id", "t")>>, VisibleStyle, childNodes)>>)

\* Texts of 50, 51 and 60 characters.
Text50 == "The quick brown fox jumps over the lazy dog again."
Text51 == Text50 \o "!"
Text60 == Text50 \o " And again"

\* What the <div> may hold: nothing, one text node (short, padded, blank, of 50, 51
\* and 60 characters), one comment, one element, a text node and an element, two
\* text nodes.
TextChildNodes ==
    {<<>>,
     <<TextNode("Hello")>>,
     <<TextNode("  Hello  world ")>>,
     <<TextNode("   ")>>,
     <<TextNode(Text50)>>,
     <<TextNode(Text51)>>,
     <<TextNode("  " \o Text60 \o " ")>>,
     <<[nodeType |-> 8, data |-> "Hello"]>>,
     <<Element("SPAN", <<Attr("id", "s")>>, VisibleStyle, <<TextNode("Hello")>>)>>,
     <<TextNode("Hello "),
       Element("SPAN", <<Attr("id", "s")>>, VisibleStyle, <<TextNode("world")>>)>>,
     <<TextNode("Hello "), TextNode("world")>>}

StructureTags == {"DIV", "SPAN", "SCRIPT"}
StructureStyles ==
    {VisibleStyle,
     [VisibleStyle EXCEPT !.display = "none"],
     [VisibleStyle EXCEPT !.visibility = "hidden"],
     [VisibleStyle EXCEPT !.opacity = "0"]}

\* The documents getVisibleStructure is run on.
StructureBodies ==
    {ChainBody(nesting) : nesting \in 0..MaxNesting}
    \cup {SmallBody(tagA, styleA, tagB, tagC) :
            tagA \in StructureTags, styleA \in StructureStyles,
            tagB \in StructureTags, tagC \in StructureTags}
    \cup {[SmallBody("DIV", VisibleStyle, "DIV", "DIV") EXCEPT !.style = style] :
            style \in StructureStyles}
    \cup {TextBody(childNodes) : childNodes \in TextChildNodes}

\* An allowedAttributes object with the given entry for "*" and for "div"; an
\* entry of Undefined is a key the object does not hold.
AllowedAttributes(forAll, forDiv) ==
    [keys |-> [k \in (IF forAll = Undefined THEN {} ELSE {"*"})
                      \cup (IF forDiv = Undefined THEN {} ELSE {"div"}) |->
                 IF k = "*" THEN forAll ELSE forDiv]]

\* The shapes of allowedAttributes: false, absent, an object with no entry, with a
\* global array, a per-tag array, both, and with `true` for the tag or globally.
StructureAllowedAttributes ==
    {JsFalse, Undefined,
     AllowedAttributes(Undefined, Undefined),
     AllowedAttributes(AllowNames({"href"}), Undefined),
     AllowedAttributes(Undefined, AllowNames({"id", "role"})),
     AllowedAttributes(AllowNames({"href"}), AllowNames({"id", "role"})),
     AllowedAttributes(AllowNames({"href"}), AllowAll),
     AllowedAttributes(AllowAll, AllowNames({"id"}))}

\* The configurations getSanitizeOptions() may return: allowedTags with body and
\* allowedAttributes of every shape; allowedTags without body, or absent (`|| []`),
\* which give no root, and allowedAttributes false or absent.
StructureSanitizeOptions ==
    {[allowedTags |-> {"body", "div", "span"}, allowedAttributes |-> attributes] :
        attributes \in StructureAllowedAttributes}
    \cup {[allowedTags |-> tags, allowedAttributes |-> attributes] :
            tags \in {{"div", "span"}, {}}, attributes \in {JsFalse, Undefined}}

\* completeTask invoked on a page that holds one of the documents, with one of the
\* configurations.
InitStructure ==
    /\ messages = <<[role |-> "system", content |-> "SYSTEM_PROMPT"],
                    [role |-> "user", content |-> "prompt(task)"]>>
    /\ message = Undefined
    /\ toolCallResults = <<>>
    /\ toolCallIndex = 1
    /\ lastFunctionResult = Null
    /\ pc = "awaiting_model"
    /\ returned = Undefined
    /\ error = NoError
    /\ \E body \in StructureBodies : page = [InitialPage EXCEPT !.body = body]
    /\ uuids = 0
    /\ sanitizeOptions \in StructureSanitizeOptions
    /\ suspended = NoTask
    /\ request = messages

\* A task in which the model asks for the visible structure of the page.
NextStructure ==
    \/ ModelRequestsTools(StructureCalls, MaxStructureCalls)
    \/ ModelStops
    \/ DispatchToolCall
    \/ AppendToolResults

SpecStructure == InitStructure /\ [][NextStructure]_vars

\* A task in which the model compares strings.
NextExpect ==
    \/ ModelRequestsTools(ExpectCalls, MaxExpectCalls)
    \/ ModelStops
    \/ DispatchToolCall
    \/ AppendToolResults

SpecExpect == Init /\ [][NextExpect]_vars

\* A task in which the model locates elements by selector, role and text and uses
\* the identifiers; the model may ask for any number of calls up to MaxLocateCalls.
NextLocate ==
    \/ ModelRequestsTools(LocateCalls, MaxLocateCalls)
    \/ ModelStops
    \/ DispatchToolCall
    \/ AppendToolResults

SpecLocate == Init /\ [][NextLocate]_vars

(***************************************************************************)
(* Reading a conversation back                                             *)
(***************************************************************************)
\* The tool calls requested by the assistant messages of a conversation.
CallsOf(msgs) ==
    UNION {{msgs[p].tool_calls[k] : k \in 1..Len(msgs[p].tool_calls)} :
              p \in {q \in 1..Len(msgs) : "tool_calls" \in DOMAIN msgs[q]}}

\* The positions of the tool-result messages of a conversation.
ToolPositions(msgs) == {p \in 1..Len(msgs) : msgs[p].role = "tool"}

\* The call a tool-result message answers.
CallWithId(msgs, id) == CHOOSE c \in CallsOf(msgs) : c.id = id
CallAnswered(msgs, p) == CallWithId(msgs, msgs[p].tool_call_id)

ResultClassNames == {"resultAssertion", "resultQuery", "resultAction", "resultError"}

\* The positions of the tool-results of result-class calls that executed.
RecordedPositions(msgs) ==
    {p \in ToolPositions(msgs) :
        /\ CallAnswered(msgs, p).function.name \in ResultClassNames
        /\ ~IsErrorPayload(msgs[p].content)}

Latest(positions) == CHOOSE p \in positions : \A q \in positions : q <= p

\* The positions of the error tool-results of a conversation.
ErrorPositions(msgs) == {p \in ToolPositions(msgs) : IsErrorPayload(msgs[p].content)}

(***************************************************************************)
(* Claims                                                                  *)
(***************************************************************************)

\* C1: whenever a model request is in flight (and after the task ended normally),
\* every assistant message that requests tool calls is followed in the conversation
\* by exactly one tool-result per requested call, in the order of the calls, and by
\* no further tool-result.
C1_OneResultPerCall ==
    pc \in {"awaiting_model", "done"} =>
        \A p \in 1..Len(messages) :
            LoopCondition(messages[p]) =>
                LET calls == messages[p].tool_calls
                IN  /\ p + Len(calls) <= Len(messages)
                    /\ \A k \in 1..Len(calls) :
                          /\ messages[p + k].role = "tool"
                          /\ messages[p + k].tool_call_id = calls[k].id
                    /\ p + Len(calls) < Len(messages) =>
                          messages[p + Len(calls) + 1].role # "tool"

\* C2: a task that returns, returns the value of the latest result-class call of the
\* conversation that executed; an earlier recorded value is overwritten.
C2_LastResultWins ==
    pc = "done" =>
        /\ RecordedPositions(messages) # {}
        /\ returned = messages[Latest(RecordedPositions(messages))].content

C2_Witness ==
    /\ pc = "done"
    /\ Cardinality(RecordedPositions(messages)) >= 2
    /\ \E p \in RecordedPositions(messages) : messages[p].content # returned

\* C3: when the model stops requesting tools and no result-class call ever executed,
\* the task returns nothing and fails with the descriptive error.
C3_NoResultIsFatal ==
    (pc \in {"done", "failed"} /\ ~LoopCondition(message)
        /\ RecordedPositions(messages) = {}) =>
        /\ pc = "failed"
        /\ returned = Undefined
        /\ error = <<"Expected to have a result from one of the result functions">>

\* The first model turn has no tool calls.
C3_Witness ==
    /\ pc = "failed"
    /\ Len(messages) = 2
    /\ error = <<"Expected to have a result from one of the result functions">>

\* C4: a call whose name is not the name of a registered action is never answered
\* by a tool-result, and no model request is issued after a turn that holds one.
C4_UnknownNameIsFatal ==
    /\ \A k \in 1..Len(toolCallResults) :
          CallWithId(messages, toolCallResults[k].tool_call_id).function.name
              \in ActionNames
    /\ pc \in {"awaiting_model", "done"} =>
          \A c \in CallsOf(messages) :
              c.type = "function" => c.function.name \in ActionNames

\* The for loop is at a call of a registered action.
AtRegisteredCall ==
    /\ InLoop
    /\ toolCall.type = "function"
    /\ toolCall.function.name \in ActionNames

\* The arguments of the call the for loop is at pass JSON.parse and the schema.
ArgumentsAccepted ==
    ~ActionParse(toolCall.function.name, toolCall.function.arguments).threw

\* What the execution body does on the accepted arguments of that call.
BodyOutcome ==
    ActionFunction(toolCall.function.name,
                   ActionParse(toolCall.function.name, toolCall.function.arguments).value,
                   page, uuids)

\* The message of the failure of the call the for loop is at.
FailureMessage ==
    IF ArgumentsAccepted THEN BodyOutcome.message
    ELSE ActionParse(toolCall.function.name, toolCall.function.arguments).message

\* The for loop has passed the last call of the batch.
BatchOver == pc = "dispatching" /\ ~InLoop

\* C5: a step that processes a call of a registered action whose arguments are
\* rejected or whose execution body fails adds the tool-result {error: message} for
\* that call, throws nothing and moves on to the next call of the batch; and once
\* the batch is over its results are appended and the next model request is issued.
C5_FailureBecomesErrorResult ==
    [][ /\ (AtRegisteredCall /\ (~ArgumentsAccepted \/ BodyOutcome.threw)) =>
              /\ toolCallResults' =
                    Append(toolCallResults,
                           [tool_call_id |-> toolCall.id, role |-> "tool",
                            content |-> [error |-> FailureMessage]])
              /\ toolCallIndex' = toolCallIndex + 1
              /\ pc' = "dispatching"
              /\ error' = NoError
        /\ BatchOver =>
              /\ messages' = messages \o toolCallResults
              /\ pc' = "awaiting_model"
      ]_vars

\* A batch of three calls: rejected arguments, a failing execution body, a success.
C5_Witness ==
    /\ pc = "awaiting_model"
    /\ Len(messages) = 6
    /\ \A p \in 4..6 : messages[p].role = "tool"
    /\ messages[4].content = [error |-> "ZodError: invalid_type"]
    /\ messages[5].content = [error |-> TimeoutError]
    /\ messages[6].content = [success |-> "true"]

ExpectedResultError == <<"Expected to have a result from one of the result functions">>

\* C6: a task that failed either stands at a call whose name is not the name of a
\* registered action, or left the loop with no result-class call ever executed.
C6_OnlyTwoFatalConditions ==
    pc = "failed" =>
        \/ /\ LoopCondition(message)
           /\ toolCallIndex <= Len(message.tool_calls)
           /\ toolCall.type = "function"
           /\ toolCall.function.name \notin ActionNames
           /\ error = <<"Unknown function: ", toolCall.function.name>>
        \/ /\ ~LoopCondition(message)
           /\ RecordedPositions(messages) = {}
           /\ error = ExpectedResultError

\* The task failed on an unknown name after failures of earlier calls were absorbed,
\* in an earlier turn and in the same batch.
C6_Witness ==
    /\ pc = "failed"
    /\ Len(error) = 2
    /\ ErrorPositions(messages) # {}
    /\ \E k \in 1..Len(toolCallResults) : IsErrorPayload(toolCallResults[k].content)

\* C7: the step that executes a result-class call leaves the task dispatching, at
\* the next call of the batch, with nothing returned; a batch that is over is
\* followed by a model request; and the task returns only on a model response
\* that carries no tool call.
C7_ResultCallDoesNotEndTask ==
    [][ /\ (AtRegisteredCall /\ toolCall.function.name \in ResultClassNames
              /\ ArgumentsAccepted) =>
              /\ pc' = "dispatching"
              /\ toolCallIndex' = toolCallIndex + 1
              /\ returned' = Undefined
        /\ BatchOver => pc' = "awaiting_model"
        /\ (pc # "done" /\ pc' = "done") =>
              /\ pc = "awaiting_model"
              /\ ~LoopCondition(message')
      ]_vars

\* A model request is in flight after a batch in which a result-class call executed
\* and a later call was dispatched.
C7_Witness ==
    /\ pc = "awaiting_model"
    /\ \E p \in RecordedPositions(messages) :
          p < Len(messages) /\ messages[p + 1].role = "tool"

\* The four shapes of a task result.
IsTaskResult(v) ==
    \/ DOMAIN v = {"success"} /\ TypeOf(v.success) = "boolean"
    \/ DOMAIN v = {"assertion"} /\ TypeOf(v.assertion) = "boolean"
    \/ DOMAIN v = {"query"} /\ TypeOf(v.query) = "string"
    \/ DOMAIN v = {"errorMessage"} /\ TypeOf(v.errorMessage) = "string"

\* C8: a value completeTask returns has one of the four shapes.
C8_ReturnedShape ==
    IF pc = "done" THEN IsTaskResult(returned) ELSE returned = Undefined

\* The returned value comes from arguments that carried a further key, in a
\* conversation that also holds the result of an assertion action and an error.
C8_Witness ==
    /\ pc = "done"
    /\ returned = [assertion |-> "true"]
    /\ \E p \in ToolPositions(messages) : "expected" \in DOMAIN messages[p].content
    /\ ErrorPositions(messages) # {}

\* C9: when the loop ends and the latest recorded result is {assertion: false} or
\* {query: ""}, the task returns that value and does not fail.
C9_FalseOrEmptyResultReturned ==
    (/\ pc \in {"done", "failed"}
     /\ ~LoopCondition(message)
     /\ RecordedPositions(messages) # {}
     /\ messages[Latest(RecordedPositions(messages))].content
            \in {[assertion |-> "false"], [query |-> "''"]}) =>
        /\ pc = "done"
        /\ returned = messages[Latest(RecordedPositions(messages))].content
        /\ error = NoError

C9_Witness ==
    /\ pc = "done"
    /\ returned = [assertion |-> "false"]

\* The positions of the tool-results of locator_selectOption calls.
SelectOptionPositions(msgs) ==
    {p \in ToolPositions(msgs) :
        CallAnswered(msgs, p).function.name = "locator_selectOption"}

\* The tool-result reports a rejection by JSON.parse or by the schema.
RejectedAtValidation(content) ==
    /\ IsErrorPayload(content)
    /\ content.error \in
         {"SyntaxError: Unexpected end of JSON input",
          "ZodError: invalid_type",
          "ZodError: Either elementId or cssSelector must be provided.",
          "ZodError: At least one of value, label, or index must be provided.",
          "ZodError: Either elementId or cssSelector must be provided. At least one of value, label, or index must be provided."}

\* The arguments are a JSON object whose supplied fields have their declared types.
SelectOptionWellTyped(a) ==
    /\ a # MalformedJson
    /\ \A k \in DOMAIN a \cap {"elementId", "cssSelector"} : TypeOf(a[k]) = "string"
    /\ \A k \in DOMAIN a \cap {"value", "label"} : TypeOf(a[k]) \in {"string", "string[]"}
    /\ \A k \in DOMAIN a \cap {"index"} : TypeOf(a[k]) \in {"number", "number[]"}

Supplied(a, group) == Cardinality(DOMAIN a \cap group)

C11_RejectedArgumentsRunNothing ==
    [][ (AtRegisteredCall /\ ~ArgumentsAccepted) =>
            /\ page' = page
            /\ uuids' = uuids
            /\ lastFunctionResult' = lastFunctionResult
            /\ messages' = messages
            /\ returned' = returned
            /\ toolCallResults' =
                  Append(toolCallResults,
                         [tool_call_id |-> toolCall.id, role |-> "tool",
                          content |-> [error |-> FailureMessage]])
      ]_vars

\* A call with ill-typed arguments has just been answered, on a page that carries a
\* marker and with a terminal result in the slot.
C11_Witness ==
    /\ pc = "dispatching"
    /\ toolCallResults # <<>>
    /\ toolCallResults[Len(toolCallResults)].content = [error |-> "ZodError: invalid_type"]
    /\ lastFunctionResult = [success |-> "true"]
    /\ page.markers["test-button"] # NoMarker
(***************************************************************************)
(* Locating actions and element identifiers                                *)
(***************************************************************************)
LocatingActionNames == {"locateElement", "locateElementsByRole", "locateElementsWithText"}

\* The for loop is at a call of a locating action whose arguments are accepted.
AtLocatingCall ==
    /\ AtRegisteredCall
    /\ toolCall.function.name \in LocatingActionNames
    /\ ArgumentsAccepted

\* The nodes of the page that the predicate of that call matches, in document
\* order; for a text search, those of them that are visible.
PredicateMatches ==
    LET name == toolCall.function.name
        args == ActionParse(name, toolCall.function.arguments).value
    IN  CASE name = "locateElement" -> QuerySelectorAll(page, args.cssSelector)
          [] name = "locateElementsByRole" -> getByRole(page, args.role)
          [] name = "locateElementsWithText" ->
                SelectSeq(getByText(page, args.text, Exact(args)), IsVisible)

\* The tool-result the step adds for the call the for loop is at.
AnsweredWith(content) ==
    toolCallResults' =
        Append(toolCallResults,
               [tool_call_id |-> toolCall.id, role |-> "tool", content |-> content])

\* C12: a step that processes a call of a locating action whose predicate matches
\* no node answers it with an empty identifier list and the count 0, not with an
\* error.
C12_NoMatchIsEmptyList ==
    [][ (AtLocatingCall /\ PredicateMatches = <<>>) =>
            AnsweredWith([elementIds |-> <<>>, count |-> "0"])
      ]_vars
\* The identifiers the next k draws of randomUUID() give.
NextIds(k) == [i \in 1..k |-> randomUUID(uuids + i)]

\* The step stamps ids[i] on nodes[i] and leaves every other marker as it was.
Stamps(nodes, ids) ==
    /\ \A i \in 1..Len(nodes) : page'.markers[nodes[i]] = ids[i]
    /\ \A m \in Elements :
          (\A i \in 1..Len(nodes) : nodes[i] # m) => page'.markers[m] = page.markers[m]

\* No node of the page carries one of the identifiers.
NewOnPage(ids) ==
    \A i \in 1..Len(ids) : \A m \in Elements : page.markers[m] # ids[i]

\* A step that processes a call of a locating action stamps a new identifier on
\* every node of `nodes` and answers with the list of exactly those identifiers and
\* their number.
StampsAndListsAll(nodes) ==
    /\ NewOnPage(NextIds(Len(nodes)))
    /\ Stamps(nodes, NextIds(Len(nodes)))
    /\ AnsweredWith([elementIds |-> NextIds(Len(nodes)),
                     count |-> ToString(Len(nodes))])

\* C13 as stated: every locating action stamps a new identifier on every node its
\* predicate matches (for a text search, every visible one) and answers with the
\* list of exactly those identifiers and a count equal to their number.
C13_EveryMatchStampedAndListed ==
    [][ AtLocatingCall => StampsAndListsAll(PredicateMatches) ]_vars

\* C13 amended: locateElementsByRole and locateElementsWithText do so;
\* locateElement stamps one new identifier on the first node its selector matches,
\* leaves the other matches as they were and answers with that one identifier
\* (with an error, and no node stamped, when the selector matches none).
C13_FirstMatchOrEveryMatch ==
    [][ AtLocatingCall =>
          IF toolCall.function.name # "locateElement"
          THEN StampsAndListsAll(PredicateMatches)
          ELSE IF PredicateMatches # <<>>
          THEN /\ NewOnPage(NextIds(1))
               /\ Stamps(<<Head(PredicateMatches)>>, NextIds(1))
               /\ AnsweredWith([elementId |-> NextIds(1)[1]])
          ELSE /\ page' = page
               /\ AnsweredWith([error |-> TimeoutError])
      ]_vars

\* One batch: a role search stamped the two rendered buttons, then a text search
\* that matches a rendered and a hidden button stamped the rendered one only, and
\* a selector that matches three buttons stamped the first one only.
C13_Witness ==
    /\ pc = "dispatching"
    /\ Len(toolCallResults) = 3
    /\ toolCallResults[1].content =
          [elementIds |-> <<"'uuid-1'", "'uuid-2'">>, count |-> "2"]
    /\ toolCallResults[2].content = [elementIds |-> <<"'uuid-3'">>, count |-> "1"]
    /\ toolCallResults[3].content = [elementId |-> "'uuid-4'"]
    /\ page.markers = [m \in Elements |->
                         IF m = "test-button" THEN "'uuid-4'"
                         ELSE IF m = "save-button" THEN "'uuid-3'"
                         ELSE NoMarker]
\* The identifiers a tool-result payload carries, in order.
IdsOf(content) ==
    IF "elementIds" \in DOMAIN content THEN content.elementIds
    ELSE IF "elementId" \in DOMAIN content THEN <<content.elementId>>
    ELSE <<>>

\* The identifiers carried by the tool-results of a sequence of messages.
RECURSIVE IdsIn(_)
IdsIn(msgs) ==
    IF msgs = <<>> THEN <<>>
    ELSE (IF Head(msgs).role = "tool" THEN IdsOf(Head(msgs).content) ELSE <<>>)
         \o IdsIn(Tail(msgs))

\* Every identifier the task has handed out so far, in the order of generation.
GeneratedIds ==
    IdsIn(IF pc = "dispatching" THEN messages \o toolCallResults ELSE messages)

\* C14: the identifiers handed out by the locating calls of a task are pairwise
\* different, and no two different nodes carry the same identifier as their marker.
C14_IdentifiersUnique ==
    /\ \A i, j \in 1..Len(GeneratedIds) :
          i # j => GeneratedIds[i] # GeneratedIds[j]
    /\ \A m1, m2 \in Elements :
          (m1 # m2 /\ page.markers[m1] # NoMarker) => page.markers[m1] # page.markers[m2]

\* Two role searches in a row: four identifiers were handed out and the two
\* rendered buttons carry the last two.
C14_Witness ==
    /\ Len(GeneratedIds) = 4
    /\ page.markers["test-button"] = "'uuid-3'"
    /\ page.markers["save-button"] = "'uuid-4'"
SingleElementActionNames == {"locator_click", "locator_isVisible", "locator_count"}

\* The for loop is at a call of a single-element action whose accepted elementId is
\* carried by no node of the page.
AtStaleIdentifierCall ==
    /\ AtRegisteredCall
    /\ toolCall.function.name \in SingleElementActionNames
    /\ ArgumentsAccepted
    /\ getLocator(page,
                  ActionParse(toolCall.function.name,
                              toolCall.function.arguments).value.elementId) = <<>>

\* The task goes on with the next call of the batch: nothing is thrown.
TaskGoesOn ==
    /\ pc' = "dispatching"
    /\ toolCallIndex' = toolCallIndex + 1
    /\ error' = NoError
    /\ returned' = returned

C16_OneCallAtATimeInOrder ==
    [][ /\ (pc = "dispatching" /\ toolCallIndex <= Len(message.tool_calls)) =>
              LET call == message.tool_calls[toolCallIndex]
                  r == TryToolCall(call, ActionsLookup(call.function.name),
                                   lastFunctionResult, page, uuids)
              IN  /\ messages' = messages
                  /\ message' = message
                  /\ IF call.type # "function"
                     THEN /\ toolCallIndex' = toolCallIndex + 1
                          /\ UNCHANGED <<toolCallResults, page, uuids, lastFunctionResult, pc>>
                     ELSE IF Falsy(ActionsLookup(call.function.name))
                     THEN /\ pc' = "failed"
                          /\ UNCHANGED <<toolCallResults, page, uuids, lastFunctionResult>>
                     ELSE /\ toolCallIndex' = toolCallIndex + 1
                          /\ pc' = "dispatching"
                          /\ toolCallResults' =
                                Append(toolCallResults,
                                       [tool_call_id |-> call.id, role |-> "tool",
                                        content |-> r.content])
                          /\ page' = r.page
                          /\ uuids' = r.uuids
                          /\ lastFunctionResult' = r.slot
        /\ pc # "dispatching" => UNCHANGED <<page, uuids, lastFunctionResult>>
      ]_vars

\* One batch of two calls: the first stamped the button, the second clicked it
\* through the identifier the first had just stamped.
C16_Witness ==
    /\ pc = "dispatching"
    /\ Len(messages) = 3
    /\ Len(toolCallResults) = 2
    /\ toolCallResults[1].content = [elementId |-> "'uuid-1'"]
    /\ toolCallResults[2].content = [success |-> "true"]
    /\ "test-button" \in page.clicked
Terminated == pc \in {"done", "failed"}

\* C17: a model turn without tool calls ends the task at once, the task never
\* resolves while the turn being processed carries tool calls, and, every request
\* and every dispatch returning, the task eventually is done or failed.
C17_TaskTerminates ==
    /\ [][ (pc = "awaiting_model" /\ ~LoopCondition(message')) => Terminated' ]_vars
    /\ [](pc = "done" => ~LoopCondition(message))
    /\ <>Terminated

\* The task resolved after MaxLiveCalls turns of one call each: no turn count
\* stopped it earlier.
C17_Witness ==
    /\ pc = "done"
    /\ Len(messages) = 2 + 2 * MaxLiveCalls
    /\ \A p \in 1..Len(messages) :
          "tool_calls" \in DOMAIN messages[p] => Len(messages[p].tool_calls) = 1
\* The tool-results a task has produced so far, in order.
ResultsOf(task) ==
    SelectSeq(task.messages, LAMBDA m : m.role = "tool")
    \o (IF task.pc = "dispatching" THEN task.toolCallResults ELSE <<>>)

\* The calls those tool-results answer, in the same order.
AnsweredCalls(task) ==
    LET results == ResultsOf(task)
    IN  [i \in 1..Len(results) |-> CallWithId(task.messages, results[i].tool_call_id)]

\* What a sequence of calls gives when nothing else runs: each call is tried on the
\* slot, the page and the UUID counter the call before it left.
RECURSIVE RunAlone(_, _, _, _)
RunAlone(calls, slot, pg, n) ==
    IF calls = <<>> THEN [contents |-> <<>>, slot |-> slot, page |-> pg, uuids |-> n]
    ELSE LET r == TryToolCall(Head(calls), ActionsLookup(Head(calls).function.name),
                              slot, pg, n)
             rest == RunAlone(Tail(calls), r.slot, r.page, r.uuids)
         IN  [rest EXCEPT !.contents = <<r.content>> \o @]

\* The tool-results, the page, the slot and the outcome of a task are those its
\* calls give when they run alone from a fresh page.
SameAsAlone(task) ==
    LET results == ResultsOf(task)
        alone == RunAlone(AnsweredCalls(task), Null, InitialPage, 0)
    IN  /\ [i \in 1..Len(results) |-> results[i].content] = alone.contents
        /\ task.page = alone.page
        /\ task.lastFunctionResult = alone.slot
        /\ task.pc = "done" => task.returned = alone.slot
        /\ task.pc = "failed" => Falsy(alone.slot)

\* C18: under every interleaving of two tasks that run on two pages, the
\* tool-results of each task's conversation, the markers of its page and the result
\* it returns are those the task's own calls give when the task runs alone.
C18_TasksIndependent ==
    /\ SameAsAlone(TaskLocals)
    /\ SameAsAlone(suspended)

\* Both tasks are done. One stamped the button of its page; the other asked for a
\* click through the same identifier text, which no node of its own page carries,
\* and its page is untouched.
C18_Witness ==
    /\ pc = "done"
    /\ suspended.pc = "done"
    /\ page.markers["test-button"] = "'uuid-1'"
    /\ suspended.page = InitialPage
    /\ \E i \in 1..Len(ResultsOf(suspended)) :
          ResultsOf(suspended)[i].content = [error |-> TimeoutError]
(***************************************************************************)
(* Structure extraction                                                    *)
(***************************************************************************)
\* The structures the task has been given so far; null for no root.
StructureResults ==
    {ResultsOf(TaskLocals)[i].content.structure :
        i \in {j \in 1..Len(ResultsOf(TaskLocals)) :
                  "structure" \in DOMAIN ResultsOf(TaskLocals)[j].content}}

\* The nodes of a returned tree: id, tag, depth (the root is at 0) and number of
\* children.
RECURSIVE Emitted(_, _)
Emitted(node, depth) ==
    {[id |-> node.id, tag |-> node.tag, depth |-> depth, children |-> Len(node.children)]}
    \cup UNION {Emitted(node.children[i], depth + 1) : i \in 1..Len(node.children)}

\* The tag of a DOM element is in the configured allow-list.
TagInAllowList(element) == ToLowerCase(element.tagName) \in sanitizeOptions.allowedTags

\* The elements of a DOM tree: id, depth, whether the element or one of its
\* ancestors has a tag outside the allow-list, and how many of its child elements
\* are rendered and have a tag of the allow-list.
RECURSIVE DomElements(_, _, _)
DomElements(element, depth, below) ==
    LET here == below \/ ~TagInAllowList(element)
        kids == Children(element)
    IN  {[id |-> GetAttribute(element.attributes, "id"), depth |-> depth,
          belowDisallowed |-> here,
          eligible |-> Cardinality({i \in 1..Len(kids) :
                                      /\ ~IsHiddenByStyle(kids[i].style)
                                      /\ TagInAllowList(kids[i])})]}
        \cup UNION {DomElements(kids[i], depth + 1, here) : i \in 1..Len(kids)}

\* C19: a returned tree has no node whose tag is outside the allow-list and no node
\* that stems from an element with a disallowed tag or from a descendant of one;
\* when the tag of <body> is not allowed no root is returned.
C19_OnlyAllowedTags ==
    LET dropped == {d.id : d \in {x \in DomElements(page.body, 0, FALSE) :
                                    x.belowDisallowed}}
    IN  \A out \in StructureResults :
            /\ ~TagInAllowList(page.body) => out = Null
            /\ out # Null =>
                  \A e \in Emitted(out, 0) :
                      /\ e.tag \in sanitizeOptions.allowedTags
                      /\ e.id \notin dropped

\* <body> holds a <script> with a <div> inside and a <div> next to it: the
\* returned root has one child, the <div> next to the <script>.
C19_Witness ==
    /\ page.body = SmallBody("SCRIPT", VisibleStyle, "DIV", "DIV")
    /\ \E out \in StructureResults :
          /\ out # Null
          /\ Len(out.children) = 1
          /\ out.children[1].id = "b"

\* C20: with <body> at depth 0, every node of a returned tree is at a depth below
\* 30; a node at depth 29 has no children, and a node above it has as many
\* children as its element has rendered child elements with an allowed tag.
C20_DepthLimit ==
    LET dom == DomElements(page.body, 0, FALSE)
    IN  \A out \in StructureResults :
            out # Null =>
                \A e \in Emitted(out, 0) :
                    /\ e.depth < maxDepth
                    /\ e.depth = maxDepth - 1 => e.children = 0
                    /\ e.depth < maxDepth - 1 =>
                          \A d \in dom : d.id = e.id => e.children = d.eligible

\* A chain of 35 nested <div>s: the returned tree ends with the <div> at depth 29,
\* which has no children.
C20_Witness ==
    /\ page.body = ChainBody(35)
    /\ \E out \in StructureResults :
          /\ out # Null
          /\ \E e \in Emitted(out, 0) : e.id = "d29" /\ e.depth = 29 /\ e.children = 0
          /\ \A e \in Emitted(out, 0) : e.id # "d30"

\* The computed style makes the element invisible: display none, visibility
\* hidden or opacity 0.
ComputedInvisible(style) ==
    style.display = "none" \/ style.visibility = "hidden" \/ style.opacity = "0"

\* The ids of the elements of a DOM tree that are invisible or descend from an
\* invisible element.
RECURSIVE InvisibleSubtrees(_, _)
InvisibleSubtrees(element, below) ==
    LET here == below \/ ComputedInvisible(element.style)
        kids == Children(element)
    IN  (IF here THEN {GetAttribute(element.attributes, "id")} ELSE {})
        \cup UNION {InvisibleSubtrees(kids[i], here) : i \in 1..Len(kids)}

\* C21: a returned tree has no node that stems from an element computed as
\* invisible (display none, visibility hidden or opacity 0) or from a descendant of
\* one, whatever the allow-lists say; when <body> itself is invisible no root is
\* returned.
C21_InvisiblePruned ==
    LET pruned == InvisibleSubtrees(page.body, FALSE)
    IN  \A out \in StructureResults :
            /\ ComputedInvisible(page.body.style) => out = Null
            /\ out # Null => \A e \in Emitted(out, 0) : e.id \notin pruned

\* <body> holds a <div> of visibility hidden with a rendered <div> inside, and a
\* <div> next to it; every tag is allowed and every attribute is copied: the
\* returned root has one child, the <div> next to the hidden one.
C21_Witness ==
    /\ page.body = SmallBody("DIV", [VisibleStyle EXCEPT !.visibility = "hidden"],
                             "DIV", "DIV")
    /\ sanitizeOptions.allowedTags = {"body", "div", "span"}
    /\ sanitizeOptions.allowedAttributes = JsFalse
    /\ \E out \in StructureResults :
          /\ out # Null
          /\ Len(out.children) = 1
          /\ out.children[1].id = "b"
(***************************************************************************)
(* Locating and clicking                                                   *)
(***************************************************************************)
\* The selectors the document answers to.
CssSelectors == {"'#test-button'", "'#fruits'", "'button'", "'#missing'"}

\* What a page holds besides the markers of its nodes.
PageContent(pg) == [clicked |-> pg.clicked, selected |-> pg.selected, body |-> pg.body]

\* A click of the driver on a selector, with no identifier in between: a strict
\* click (page.locator(cssSelector).click()) asks for one match, a click that is
\* not strict (page.click(cssSelector)) takes the first match.
ClickSelector(pg, cssSelector, strict) ==
    LET locator == QuerySelectorAll(pg, cssSelector)
    IN  IF locator = <<>> THEN [threw |-> TRUE, page |-> pg]
        ELSE IF strict /\ Len(locator) > 1 THEN [threw |-> TRUE, page |-> pg]
        ELSE [threw |-> FALSE, page |-> [pg EXCEPT !.clicked = @ \cup {Head(locator)}]]

\* locateElement on a selector, then locator_click through the identifier it
\* returned.
RoundTrip(pg, n, cssSelector) ==
    LET located == locateElement([cssSelector |-> cssSelector], pg, n)
    IN  IF located.threw THEN located
        ELSE locator_click([elementId |-> located.value.elementId],
                           located.page, located.uuids)

RECURSIVE StructureNodes(_)
StructureNodes(node) ==
    {node} \cup UNION {StructureNodes(node.children[i]) : i \in 1..Len(node.children)}

\* The elements of a DOM tree.
RECURSIVE DocumentElements(_)
DocumentElements(element) ==
    {element} \cup UNION {DocumentElements(Children(element)[i]) :
                            i \in 1..Len(Children(element))}

\* The element of the document a returned node stems from: the one with its id.
ElementOf(node) ==
    CHOOSE element \in DocumentElements(page.body) :
        GetAttribute(element.attributes, "id") = node.id

\* The configured allow-list holds an entry for the key (a tag or "*").
HasEntry(key) ==
    /\ sanitizeOptions.allowedAttributes \notin {JsFalse, Undefined}
    /\ key \in DOMAIN sanitizeOptions.allowedAttributes.keys

\* The entry for the key is `true`; the names an array entry for the key lists.
EntryIsTrue(key) == HasEntry(key) /\ sanitizeOptions.allowedAttributes.keys[key].all
EntryNames(key) ==
    IF HasEntry(key) THEN sanitizeOptions.allowedAttributes.keys[key].names ELSE {}

\* The entries of the allow-list permit the attribute on a node of the tag: every
\* attribute when the entry of the tag or the global entry is `true`, otherwise
\* the names the two arrays list; nothing when there is neither entry.
EntriesPermit(tag, attrName) ==
    \/ EntryIsTrue(tag)
    \/ EntryIsTrue("*")
    \/ attrName \in EntryNames(tag) \cup EntryNames("*")

\* The attribute map of the node holds, with their values, the attributes of its
\* element that `permits` lets through, and nothing else.
AttributesAre(node, permits(_, _)) ==
    LET attributes == ElementAttributes(page.markers, ElementOf(node))
        kept == {attributes[i] : i \in {j \in 1..Len(attributes) :
                                          permits(node.tag, attributes[j].name)}}
    IN  /\ DOMAIN node.attributes = {a.name : a \in kept}
        /\ \A a \in kept : node.attributes[a.name] = a.value

FalseOrEntriesPermit(tag, attrName) ==
    sanitizeOptions.allowedAttributes = JsFalse \/ EntriesPermit(tag, attrName)

ExpectedText(element) ==
    IF Len(element.childNodes) # 1 THEN ""
    ELSE IF element.childNodes[1].nodeType # 3 THEN ""
    ELSE LET trimmed == Trim(element.childNodes[1].data)
         IN  IF Len(trimmed) <= 50 THEN trimmed
             ELSE SubSeq(trimmed, 1, 50) \o "..."

\* C24: a returned node has a text field only when its element has exactly one
\* child node and that child is a text node; the field is the trimmed text when it
\* has at most 50 characters and its first 50 characters followed by "..."
\* otherwise, so it never has more than 53 characters; an element with several
\* child nodes, or with one that is not a text node, gives no text field.
C24_TextOfSingleTextChild ==
    \A out \in StructureResults :
        out # Null =>
            \A node \in StructureNodes(out) :
                LET element == ElementOf(node)
                IN  /\ "text" \in DOMAIN node <=> ExpectedText(element) # ""
                    /\ "text" \in DOMAIN node =>
                          /\ node.text = ExpectedText(element)
                          /\ Len(node.text) <= 53
                          /\ Len(element.childNodes) = 1
                          /\ element.childNodes[1].nodeType = 3

\* The <div> holds one text node of 60 characters between blanks: its node carries
\* the first 50 characters and "...", 53 characters in all.
C24_Witness ==
    /\ page.body = TextBody(<<TextNode("  " \o Text60 \o " ")>>)
    /\ \E out \in StructureResults :
          /\ out # Null
          /\ "text" \in DOMAIN out.children[1]
          /\ out.children[1].text = Text50 \o "..."
          /\ Len(out.children[1].text) = 53
(***************************************************************************)
(* Comparisons                                                             *)
(***************************************************************************)
ExpectActionNames == {"expect_toBe", "expect_notToBe"}

\* The for loop is at a call of expect_toBe or expect_notToBe whose arguments are a
\* pair of strings.
AtExpectCall ==
    /\ AtRegisteredCall
    /\ toolCall.function.name \in ExpectActionNames
    /\ ArgumentsAccepted

\* The pair of that call.
Compared == ActionParse(toolCall.function.name, toolCall.function.arguments).value

\* What the other of the two actions gives on the same pair.
OtherOutcome ==
    ActionFunction(IF toolCall.function.name = "expect_toBe" THEN "expect_notToBe"
                   ELSE "expect_toBe",
                   Compared, page, uuids)

\* C25: a step that processes a call of expect_toBe or expect_notToBe on a pair of
\* strings answers it with {actual, expected, success}, the two values as given and
\* success true exactly when they are equal (expect_toBe) or differ
\* (expect_notToBe); the other action gives the opposite success on that pair; no
\* error tool-result is made and the task goes on with the next call.
C25_ComparisonsNeverFail ==
    [][ AtExpectCall =>
            LET equal == Compared.actual = Compared.expected
                success == IF toolCall.function.name = "expect_toBe" THEN equal
                           ELSE ~equal
            IN  /\ AnsweredWith([actual |-> Compared.actual,
                                 expected |-> Compared.expected,
                                 success |-> IF success THEN "true" ELSE "false"])
                /\ ~OtherOutcome.threw
                /\ OtherOutcome.value.success = (IF success THEN "false" ELSE "true")
                /\ toolCallIndex' = toolCallIndex + 1
                /\ pc' = "dispatching"
                /\ error' = NoError
                /\ UNCHANGED <<page, lastFunctionResult>>
      ]_vars

\* One batch compared 'a' with 'b' through both actions: expect_toBe answered with
\* success false, expect_notToBe with success true, and the model is asked again.
C25_Witness ==
    /\ pc = "awaiting_model"
    /\ Len(messages) = 5
    /\ messages[4].role = "tool" /\ messages[5].role = "tool"
    /\ CallAnswered(messages, 4).function.name = "expect_toBe"
    /\ messages[4].content = [actual |-> "'a'", expected |-> "'b'", success |-> "false"]
    /\ CallAnswered(messages, 5).function.name = "expect_notToBe"
    /\ messages[5].content = [actual |-> "'a'", expected |-> "'b'", success |-> "true"]
(***************************************************************************)
(* The conversation and the slot                                           *)
(***************************************************************************)
\* Two messages are the same message: of the same role, with the same fields.
SameMessage(a, b) == a.role = b.role /\ a = b

\* Two lists of messages hold the same messages in the same order.
SameMessages(as, bs) ==
    Len(as) = Len(bs) /\ \A p \in 1..Len(as) : SameMessage(as[p], bs[p])

\* What a step adds at the end of the conversation.
Appended == SubSeq(messages', Len(messages) + 1, Len(messages'))

\* C26: the conversation starts as [system instruction, user task]; every step
\* keeps the messages it finds, in their places, and adds at the end either
\* nothing, or the assistant message that requests tool calls (when a response
\* arrives), or the tool-results of the batch that is over; and every model
\* request carries the whole conversation as it then is.
C26_ConversationAppendOnly ==
    /\ messages = <<[role |-> "system", content |-> "SYSTEM_PROMPT"],
                    [role |-> "user", content |-> "prompt(task)"]>>
    /\ [][ /\ Len(messages') >= Len(messages)
           /\ SameMessages(SubSeq(messages', 1, Len(messages)), messages)
           /\ \/ Appended = <<>>
              \/ /\ pc = "awaiting_model"
                 /\ LoopCondition(message')
                 /\ SameMessages(Appended, <<message'>>)
              \/ /\ BatchOver
                 /\ SameMessages(Appended, toolCallResults)
         ]_vars
    /\ [](pc = "awaiting_model" => SameMessages(request, messages))

\* A request is in flight after two turns: it carries the seven messages of the
\* conversation, the assistant message of each turn followed by its tool-results.
C26_Witness ==
    /\ pc = "awaiting_model"
    /\ Len(messages) = 7
    /\ SameMessages(request, messages)
    /\ messages[3].role = "assistant" /\ messages[4].role = "tool"
    /\ messages[5].role = "assistant" /\ messages[6].role = "tool"
    /\ messages[7].role = "tool"

\* The for loop is at a result-class call whose arguments are accepted.
AtAcceptedResultCall ==
    /\ AtRegisteredCall
    /\ toolCall.function.name \in ResultClassNames
    /\ ArgumentsAccepted

\* C27: a step that executes a result-class call whose arguments are accepted puts
\* the value of that call in the terminal-result slot; every other step (another
\* action, a result-class call whose arguments are rejected, a skipped call, a
\* model response, the end of a batch) leaves the slot as it is; and a slot that
\* holds a result never becomes empty again.
C27_SlotWrittenByResultCallsOnly ==
    [][ /\ AtAcceptedResultCall => lastFunctionResult' = BodyOutcome.value
        /\ ~AtAcceptedResultCall => lastFunctionResult' = lastFunctionResult
        /\ ~Falsy(lastFunctionResult) => ~Falsy(lastFunctionResult')
      ]_vars

\* One batch: resultAssertion recorded {assertion: false}, then locateElement
\* executed and a resultError call was rejected; the slot still holds
\* {assertion: false}.
C27_Witness ==
    /\ pc = "awaiting_model"
    /\ Len(messages) = 6
    /\ \A p \in 4..6 : messages[p].role = "tool"
    /\ CallAnswered(messages, 4).function.name = "resultAssertion"
    /\ CallAnswered(messages, 5).function.name = "locateElement"
    /\ ~IsErrorPayload(messages[5].content)
    /\ CallAnswered(messages, 6).function.name = "resultError"
    /\ IsErrorPayload(messages[6].content)
    /\ lastFunctionResult = [assertion |-> "false"]

\* The for loop is at a function call whose name is not the name of a registered
\* action.
AtUnknownNameCall ==
    /\ InLoop
    /\ toolCall.type = "function"
    /\ toolCall.function.name \notin ActionNames

\* C28: a step that processes a call whose name is not the name of a registered
\* action ends the task in failure, whether or not the slot holds a result:
\* nothing is returned, the page keeps what the earlier calls of the batch did to
\* it, the tool-results of those calls are not appended to the conversation, and
\* the loop does not move on to the calls that follow.
C28_UnknownNameFailsTask ==
    [][ AtUnknownNameCall =>
            /\ pc' = "failed"
            /\ error' = <<"Unknown function: ", toolCall.function.name>>
            /\ returned' = Undefined
            /\ UNCHANGED <<messages, toolCallResults, toolCallIndex, page,
                           lastFunctionResult>>
      ]_vars
(***************************************************************************)
(* One identifier per node                                                 *)
(***************************************************************************)
\* The nodes the call the for loop is at stamps: the first match of a selector,
\* every match of a role or text search.
StampedNodes ==
    IF toolCall.function.name # "locateElement" THEN PredicateMatches
    ELSE IF PredicateMatches = <<>> THEN <<>>
    ELSE <<Head(PredicateMatches)>>

\* The identifiers handed out so far that no node of the page carries.
Unresolved(pg) ==
    {GeneratedIds[i] : i \in {j \in 1..Len(GeneratedIds) :
                                getLocator(pg, GeneratedIds[j]) = <<>>}}

\* C29: a node carries one data-element-id at most. A step that processes a
\* locating call leaves each node it stamps resolved by the identifier it has just
\* been given and by no other: the identifier the node carried before resolves
\* to no element from then on. An identifier that resolves to no element never
\* resolves to one again, and no identifier ever resolves to two nodes.
C29_LatestIdentifierOnly ==
    /\ [][ AtLocatingCall =>
             \A i \in 1..Len(StampedNodes) :
                 LET node == StampedNodes[i]
                     before == page.markers[node]
                     after == NextIds(Len(StampedNodes))[i]
                 IN  /\ getLocator(page', after) = <<node>>
                     /\ before # NoMarker => getLocator(page', before) = <<>>
                     /\ page'.markers[node] = after
         ]_vars
    /\ [][ \A id \in Unresolved(page) : getLocator(page', id) = <<>> ]_vars
    /\ [](\A i \in 1..Len(GeneratedIds) : Len(getLocator(page, GeneratedIds[i])) <= 1)

\* Three searches in a row stamped the first button three times: by role, by role
\* again and by selector. The identifier of the last call resolves to it; the two
\* it carried before resolve to no element.
C29_Witness ==
    /\ Len(GeneratedIds) = 5
    /\ getLocator(page, "'uuid-5'") = <<"test-button">>
    /\ getLocator(page, "'uuid-1'") = <<>>
    /\ getLocator(page, "'uuid-3'") = <<>>
    /\ getLocator(page, "'uuid-4'") = <<"save-button">>
(***************************************************************************)
(* Calls that are no function calls                                        *)
(***************************************************************************)
\* The ids of the function calls among the first k calls of the batch, in order.
FunctionCallIds(k) ==
    LET calls == SelectSeq(SubSeq(message.tool_calls, 1, k),
                           LAMBDA c : c.type = "function")
    IN  [i \in 1..Len(calls) |-> calls[i].id]

\* C30: a step that processes a call whose type is not "function" moves the loop
\* to the next call and does nothing else: no tool-result is made, no action runs
\* (the page, the UUID counter and the slot are as before) and the task neither
\* fails nor returns. The tool-results of the batch are those of its function
\* calls, in order; and when the batch is over they are appended and the next
\* model request is issued.
C30_OtherCallTypesSkipped ==
    /\ [][ /\ (InLoop /\ toolCall.type # "function") =>
                 /\ toolCallIndex' = toolCallIndex + 1
                 /\ UNCHANGED <<messages, message, toolCallResults, page, uuids,
                                lastFunctionResult, pc, returned, error, request>>
           /\ BatchOver =>
                 /\ pc' = "awaiting_model"
                 /\ SameMessages(Appended, toolCallResults)
                 /\ SameMessages(request', messages')
         ]_vars
    /\ [](pc = "dispatching" =>
             [i \in 1..Len(toolCallResults) |-> toolCallResults[i].tool_call_id]
                = FunctionCallIds(toolCallIndex - 1))

\* A batch of three calls, a function call between two calls of another type, is
\* over and the model is asked again: the conversation got the one tool-result of
\* the function call.
C30_Witness ==
    /\ pc = "awaiting_model"
    /\ Len(messages) = 4
    /\ Len(messages[3].tool_calls) = 3
    /\ messages[3].tool_calls[1].type = "custom"
    /\ messages[3].tool_calls[2].type = "function"
    /\ messages[3].tool_calls[3].type = "custom"
    /\ messages[4].role = "tool"
    /\ messages[4].tool_call_id = messages[3].tool_calls[2].id
    /\ SameMessages(request, messages)
====
